---- MODULE Spec2Model ----
(***************************************************************************)
(* A model of the fetch-through cache of the stock screening project:      *)
(*   - DataCache (cache_manager.py): one JSON file per key, written        *)
(*     through "<path>.tmp" and os.replace, read with a read-time expiry   *)
(*     check;                                                              *)
(*   - analyze_fundamentals (utils.py): cache lookup, year-coverage check, *)
(*     incremental fetch of the missing years, merge and write-back.       *)
(*   - get_api_delay (utils.py) and the sleeps analyze_fundamentals takes   *)
(*     between its external reads, in exact milliseconds;                  *)
(*   - StockScreener.screen_all_stocks (screening.py): the cache scan, the *)
(*     two group calls, the thread-pool loop, the sort.                    *)
(*                                                                         *)
(* The file system is modelled with inodes, so that a file that is open    *)
(* for writing keeps receiving writes after it was truncated or renamed.   *)
(* A JSON document is written in NumChunks buffer flushes.                  *)
(***************************************************************************)
EXTENDS Integers, Sequences, FiniteSets, TLC

VARIABLES
    files,          \* path -> inode: the cache directory
    inodes,         \* inode -> the chunks written to it
    proc,           \* per thread: its position in DataCache.get / DataCache.set
    now,            \* time.time()
    lastSet,        \* per key: the document stored when the latest set began, and its new one
    crashes,        \* how often the process was killed
    active,         \* the threads that run
    current_year,   \* datetime.now().year
    af,             \* the running analyze_fundamentals call: its locals
    calls,          \* the external reads that call has issued, in order
    requests,       \* the query windows the caller has still to ask for
    rate,           \* a call of get_api_delay: its arguments and what it returned
    clock,          \* wall-clock time in milliseconds
    hint,           \* max_workers, user_points and api_delay the workers were given
    pace,           \* per worker thread: where it is in analyze_fundamentals, when it wakes
    sent,           \* the external reads of the last minute: api, time and thread
    market,         \* per stock: its data_cache entry, its screening_cache entry, the provider
    scr,            \* the running screen_all_stocks call: its arguments and locals
    srt,            \* a call of the final sort: the list given and the list left
    disk,           \* the cache directory of one thread's DataCache: file name -> text
    sop,            \* the last DataCache call: arguments, directory before, result
    wrote,          \* when fetch_company_info last wrote its entry, if it did
    vs,             \* one StockScreener and the market: prices, screening_cache, last call
    pk,             \* a stock and a window, and the cache keys computed for them
    fc,             \* a window and a record set, and what check_fundamentals_pass says
    pg,             \* st.session_state of the step-wise screening page
    tw              \* the loop over the same stocks, with the callbacks and without

cacheVars == <<files, inodes, proc, now, lastSet, crashes, active>>
paceVars == <<clock, hint, pace, sent>>
batchVars == <<market, scr>>
storeVars == <<disk, sop, wrote>>
extraVars == <<vs, pk, fc, pg, tw>>
restVars == <<rate, paceVars, batchVars, srt, storeVars, extraVars>>
fetchVars == <<current_year, af, calls, requests, restVars>>
vars == <<files, inodes, proc, now, lastSet, crashes, active, current_year, af, calls, requests,
          restVars>>

\* ---------------------------------------------------------------- bounds
MaxTime == 2
MaxCrashes == 1
NumChunks == 2
\* the store's TTL, in clock ticks (DataCache.expire_seconds, scaled)
expire_seconds == 1

Workers == {1, 2}
Keys == {"k1"}
Values == {"a", "b"}

\* ------------------------------------------------------- optional values
None == <<>>
Some(x) == <<x>>
The(o) == o[1]

\* ------------------------------------------------------------ file names
\* DataCache._get_cache_path: <cache_dir>/<safe_key>.json
get_cache_path(key) == <<key, "json">>

\* (a slip: writing the cache file in place)
temp_path_in_place(key) == get_cache_path(key)

\* the path DataCache.set writes first: cache_path + '.tmp'
temp_path(key) == <<key, "json.tmp">>

\* --------------------------------------------------------- file contents
\* json.dump(cache_data, f): the document leaves the buffer in NumChunks writes
Chunk(cache_data, i) == [p |-> cache_data, i |-> i]

Complete(cache_data) == [i \in 1..NumChunks |-> Chunk(cache_data, i)]

\* json.load(f): the document, or nothing when the text is not one document
json_load(content) ==
    IF /\ Len(content) = NumChunks
       /\ \A i \in 1..NumChunks : content[i].i = i /\ content[i].p = content[1].p
    THEN Some(content[1].p)
    ELSE None

\* write one chunk at offset off (0-based); a write past the end leaves a hole
WriteAt(content, off, chunk) ==
    [i \in 1..(IF off + 1 > Len(content) THEN off + 1 ELSE Len(content)) |->
        IF i = off + 1 THEN chunk
        ELSE IF i <= Len(content) THEN content[i]
        ELSE [p |-> chunk.p, i |-> 0]]

\* (a slip: an entry of exactly the TTL's age counts as expired)
Expired_at_ttl(cache_data, t) == t - cache_data.timestamp >= expire_seconds

\* time.time() - cached_time > self.expire_seconds
Expired(cache_data, t) == t - cache_data.timestamp > expire_seconds

\* ------------------------------------------------------------ the inodes
MaxIno == 2 * Cardinality(Workers) + 2 * Cardinality(Keys)

UsedInos(f, pr) ==
    {f[p] : p \in DOMAIN f} \cup {pr[w].ino : w \in {x \in Workers : pr[x].ino # 0}}

FreeIno(f, pr) == CHOOSE n \in 1..MaxIno :
    /\ n \notin UsedInos(f, pr)
    /\ \A m \in 1..MaxIno : m \notin UsedInos(f, pr) => n <= m

\* an inode lives while a name or an open descriptor refers to it
Collect(ino, f, pr) == [n \in (DOMAIN ino) \cap UsedInos(f, pr) |-> ino[n]]

NoFiles == [p \in {} |-> 0]

Remove(f, path) == [p \in (DOMAIN f) \ {path} |-> f[p]]

\* ------------------------------------------------------------ the workers
Idle == [pc |-> "idle", key |-> "", cache_data |-> None, ino |-> 0, off |-> 0,
         seen |-> None, t |-> 0, ret |-> None]

Returned(w, r) == [proc EXCEPT ![w] = [Idle EXCEPT !.ret = Some(r)]]

CacheInit ==
    /\ files = NoFiles
    /\ inodes = NoFiles
    /\ proc = [w \in Workers |-> Idle]
    /\ now = 0
    /\ lastSet = [k \in Keys |-> [old |-> None, new |-> None]]
    /\ crashes = 0

\* what the file of key k holds, decoded
Stored(k) ==
    IF get_cache_path(k) \in DOMAIN files
    THEN json_load(inodes[files[get_cache_path(k)]])
    ELSE None

\* --------------------------------------------------------- DataCache.set
SetResult(k, ok) == [op |-> "set", key |-> k, ok |-> ok]

\* cache_data = {'timestamp': time.time(), 'data': converted_data}
SetBegin(w, k, v) ==
    /\ w \in active
    /\ proc[w].pc = "idle"
    /\ proc' = [proc EXCEPT ![w] = [Idle EXCEPT !.pc = "set_open", !.key = k,
                   !.cache_data = Some([timestamp |-> now, data |-> v])]]
    /\ lastSet' = [lastSet EXCEPT ![k] =
                      [old |-> Stored(k), new |-> Some([timestamp |-> now, data |-> v])]]
    /\ UNCHANGED <<files, inodes, now, crashes, active, fetchVars>>

\* open(temp_path, 'w'): creates the file, or truncates the one that is there
SetOpen(w) ==
    /\ proc[w].pc = "set_open"
    /\ LET tp == temp_path(proc[w].key)
           n == IF tp \in DOMAIN files THEN files[tp] ELSE FreeIno(files, proc)
       IN /\ files' = IF tp \in DOMAIN files THEN files ELSE (tp :> n) @@ files
          /\ inodes' = (n :> << >>) @@ inodes
          /\ proc' = [proc EXCEPT ![w].pc = "set_write", ![w].ino = n, ![w].off = 0]
    /\ UNCHANGED <<now, lastSet, crashes, active, fetchVars>>

\* json.dump(...): one buffer flush; the last one is followed by close()
SetWrite(w) ==
    /\ proc[w].pc = "set_write"
    /\ LET n == proc[w].ino
           off == proc[w].off
           last == off + 1 = NumChunks
           pr == [proc EXCEPT ![w].off = off + 1,
                              ![w].pc = IF last THEN "set_replace" ELSE "set_write",
                              ![w].ino = IF last THEN 0 ELSE n]
           ino == [inodes EXCEPT ![n] =
                      WriteAt(inodes[n], off, Chunk(The(proc[w].cache_data), off + 1))]
       IN /\ proc' = pr
          /\ inodes' = Collect(ino, files, pr)
    /\ UNCHANGED <<files, now, lastSet, crashes, active, fetchVars>>

\* os.replace(temp_path, cache_path); FileNotFoundError goes to the except branch
SetReplace(w) ==
    /\ proc[w].pc = "set_replace"
    /\ LET tp == temp_path(proc[w].key)
           cp == get_cache_path(proc[w].key)
       IN IF tp \in DOMAIN files
          THEN LET f == IF tp = cp THEN files ELSE (cp :> files[tp]) @@ Remove(files, tp)
                   pr == Returned(w, SetResult(proc[w].key, TRUE))
               IN /\ files' = f
                  /\ proc' = pr
                  /\ inodes' = Collect(inodes, f, pr)
          ELSE /\ proc' = [proc EXCEPT ![w].pc = "set_except"]
               /\ UNCHANGED <<files, inodes>>
    /\ UNCHANGED <<now, lastSet, crashes, active, fetchVars>>

\* except: if os.path.exists(temp_path): os.remove(temp_path); return False
SetExcept(w) ==
    /\ proc[w].pc = "set_except"
    /\ LET tp == temp_path(proc[w].key)
           f == Remove(files, tp)
           pr == Returned(w, SetResult(proc[w].key, FALSE))
       IN /\ files' = f
          /\ proc' = pr
          /\ inodes' = Collect(inodes, f, pr)
    /\ UNCHANGED <<now, lastSet, crashes, active, fetchVars>>

\* --------------------------------------------------------- DataCache.get
GetResult(k, val, seen, t, why) ==
    [op |-> "get", key |-> k, val |-> val, seen |-> seen, t |-> t, why |-> why]

\* if not os.path.exists(cache_path): return None
GetExists(w, k) ==
    /\ w \in active
    /\ proc[w].pc = "idle"
    /\ proc' = IF get_cache_path(k) \in DOMAIN files
               THEN [proc EXCEPT ![w] = [Idle EXCEPT !.pc = "get_load", !.key = k]]
               ELSE Returned(w, GetResult(k, None, None, now, "absent"))
    /\ UNCHANGED <<files, inodes, now, lastSet, crashes, active, fetchVars>>

\* open + json.load + the expiry check; every exception returns None
GetLoad(w) ==
    /\ proc[w].pc = "get_load"
    /\ LET k == proc[w].key
           cd == Stored(k)
       IN proc' =
            IF get_cache_path(k) \notin DOMAIN files
            THEN Returned(w, GetResult(k, None, None, now, "vanished"))
            ELSE IF cd = None
            THEN Returned(w, GetResult(k, None, None, now, "corrupt"))
            ELSE IF Expired(The(cd), now)
            THEN [proc EXCEPT ![w].pc = "get_remove", ![w].seen = cd, ![w].t = now]
            ELSE Returned(w, GetResult(k, Some(The(cd).data), cd, now, "hit"))
    /\ UNCHANGED <<files, inodes, now, lastSet, crashes, active, fetchVars>>

\* os.remove(cache_path); return None (a failing remove is caught: None too)
GetRemove(w) ==
    /\ proc[w].pc = "get_remove"
    /\ LET k == proc[w].key
           f == Remove(files, get_cache_path(k))
           pr == Returned(w, GetResult(k, None, proc[w].seen, proc[w].t, "expired"))
       IN /\ files' = f
          /\ proc' = pr
          /\ inodes' = Collect(inodes, f, pr)
    /\ UNCHANGED <<now, lastSet, crashes, active, fetchVars>>

\* ------------------------------------------------------------ environment
\* the clock advances
Tick ==
    /\ now < MaxTime
    /\ now' = now + 1
    /\ UNCHANGED <<files, inodes, proc, lastSet, crashes, active, fetchVars>>

\* the process is killed: every thread stops where it is, the files stay
Crash ==
    /\ crashes < MaxCrashes
    /\ \E w \in Workers : proc[w].pc # "idle"
    /\ crashes' = crashes + 1
    /\ LET pr == [w \in Workers |-> Idle]
       IN /\ proc' = pr
          /\ inodes' = Collect(inodes, files, pr)
    /\ UNCHANGED <<files, now, lastSet, active, fetchVars>>


\* =================================================== analyze_fundamentals
MaxRows == 3
MaxAuditRows == 1
ts_code == "600519.SH"
Years == 2022..2024
Window == <<2022, 2024>>
NarrowWindow == <<2023, 2024>>
CurrentYears == 2024..2026

\* f"{start_year}0101", f"{end_year}1231" (screening.py), as numbers
start_date_of(y) == y * 10000 + 101
end_date_of(y) == y * 10000 + 1231

\* row['end_date'][:4]
YearOf(end_date) == end_date \div 10000

\* end_date.endswith('1231')
is_annual(end_date) == end_date % 10000 = 1231

\* cache_key = f"{ts_code}_{start_date_str}_{end_date_str}_{years}"
cache_key(code, start_date, end_date, years) == <<code, start_date, end_date, years>>

\* cache_key = f"company_info_{ts_code}"
company_cache_key(code) == <<"company_info", code>>

\* expire_seconds = 30 * 24 * 3600, the store's TTL being 24 hours
company_expire_seconds == 30 * expire_seconds

SetMin(S) == CHOOSE x \in S : \A y \in S : x <= y
Min(a, b) == IF a <= b THEN a ELSE b
SetMax(S) == CHOOSE x \in S : \A y \in S : x >= y

\* ------------------------------------------------------ the data provider
\* the report periods the provider can hold in year cy: year ends that have
\* passed, and an interim period
ProviderPeriods(cy) ==
    {end_date_of(y) : y \in {x \in Years : x < cy}} \cup {2023 * 10000 + 630}

\* the periods it holds audit opinions for
AuditPeriods(cy) == {end_date_of(y) : y \in {x \in 2023..2024 : x < cy}}

RECURSIVE Ascending(_)
Ascending(S) == IF S = {} THEN << >>
                ELSE <<SetMin(S)>> \o Ascending(S \ {SetMin(S)})

\* the responses tried: up to n of the periods, oldest first, and a single
\* period returned twice
Responses(periods, n) ==
    {Ascending(S) : S \in {T \in SUBSET periods : Cardinality(T) <= n}}
    \cup {<<d, d>> : d \in {x \in periods : n >= 2}}

StatementResponses == [cy \in CurrentYears |-> Responses(ProviderPeriods(cy), MaxRows)]

AuditResponses == [cy \in CurrentYears |-> Responses(AuditPeriods(cy), MaxAuditRows)]

\* a response as a frame: one row per date, marked as coming from the provider
Rows(dates) == [i \in DOMAIN dates |-> [end_date |-> dates[i], src |-> "api"]]

\* merged.to_dict('records'), json.dump, json.load, pd.DataFrame(...): the rows
\* with their end_date, which are from then on rows of the cache
to_records(df) == [i \in DOMAIN df |-> [end_date |-> df[i].end_date, src |-> "cache"]]

\* ------------------------------------------------------- frame operations
KeysOf(df) == {df[i].end_date : i \in DOMAIN df}

YearsIn(df) == {YearOf(d) : d \in KeysOf(df)}

\* df[df['end_date'].str.endswith('1231')]
annual_only(df) == LET keep(r) == is_annual(r.end_date) IN SelectSeq(df, keep)

InsertDesc(s, x) ==
    LET n == Cardinality({i \in DOMAIN s : s[i].end_date >= x.end_date})
    IN SubSeq(s, 1, n) \o <<x>> \o SubSeq(s, n + 1, Len(s))

InsertAsc(s, x) ==
    LET n == Cardinality({i \in DOMAIN s : s[i].end_date <= x.end_date})
    IN SubSeq(s, 1, n) \o <<x>> \o SubSeq(s, n + 1, Len(s))

RECURSIVE sort_asc(_)
\* sort_values('end_date'): rows of one end_date keep their order
sort_asc(df) ==
    IF df = << >> THEN << >>
    ELSE InsertAsc(sort_asc(SubSeq(df, 1, Len(df) - 1)), df[Len(df)])

RECURSIVE sort_desc(_)
\* (a slip: ascending where descending is meant)
sort_desc_wrong_way(df) == sort_asc(df)

\* sort_values('end_date', ascending=False) / sorted(..., reverse=True)
sort_desc(df) ==
    IF df = << >> THEN << >>
    ELSE InsertDesc(sort_desc(SubSeq(df, 1, Len(df) - 1)), df[Len(df)])

RECURSIVE keep_first(_)
\* drop_duplicates(subset='end_date', keep='first')
keep_first(df) ==
    IF df = << >> THEN << >>
    ELSE LET r == keep_first(SubSeq(df, 1, Len(df) - 1))
             x == df[Len(df)]
         IN IF x.end_date \in KeysOf(r) THEN r ELSE Append(r, x)

RECURSIVE keep_last(_)
\* (a slip: keep='first' after the ascending sort, so that the cached row stays)
keep_last_cached_wins(df) == keep_first(df)

\* drop_duplicates(subset=['end_date'], keep='last')
keep_last(df) ==
    IF df = << >> THEN << >>
    ELSE LET r == keep_last(Tail(df))
         IN IF Head(df).end_date \in KeysOf(r) THEN r ELSE <<Head(df)>> \o r

\* _filter_annual_records: nothing when it raises ValueError. start_date and
\* end_date are 0 for None.
filter_annual_records(df, start_date, end_date) ==
    LET annual == annual_only(df)
        inrange(r) == /\ (start_date # 0 => r.end_date >= start_date)
                      /\ (end_date # 0 => r.end_date <= end_date)
        ranged == SelectSeq(annual, inrange)
    IN IF df = << >> \/ annual = << >> \/ ranged = << >>
       THEN None
       ELSE Some(keep_first(sort_desc(ranged)))

\* balance.merge(income, on="end_date", how="inner").merge(cashflow, how="left")
\*   .sort_values("end_date", ascending=False), then the year-end filter
merge_statements(balance_df, income_df, cashflow_df) ==
    LET both(r) == r.end_date \in KeysOf(income_df)
    IN annual_only(sort_desc(SelectSeq(balance_df, both)))

\* ------------------------------------------------ the year-coverage check
\* (a slip: range(start_year - 1, end_year + 1))
expected_years_from_year_before(start_year, end_year) == (start_year - 1)..end_year

\* expected_years = list(range(start_year, end_year + 1))
expected_years(start_year, end_year) == start_year..end_year

\* missing_years = [y for y in expected_years if y not in actual_years]
missing_years(expected, actual) == {y \in expected : y \notin actual}

\* (a slip: the whole span of the cache and the gap is fetched again)
fetch_years_whole_window(missing, actual) ==
    <<SetMin(missing \cup actual), SetMax(missing \cup actual)>>

\* fetch_start_year = min(...); fetch_end_year = max(...)
fetch_years(missing, actual) == <<SetMin(missing), SetMax(missing)>>

\* (a slip: a missing previous calendar year is taken for a historical one)
cache_decision_no_tolerance(actual_years, start_year, end_year, cy) ==
    LET missing == {y \in start_year..end_year : y \notin actual_years /\ y < cy}
    IN IF missing = {} THEN [kind |-> "return", range |-> <<0, 0>>]
       ELSE [kind |-> "incremental", range |-> <<SetMin(missing), SetMax(missing)>>]

\* lines 948-1031: what to do with a cache entry holding actual_years
\*   "return": serve the cache;  "incremental": fetch <<from, to>> and merge
cache_decision(actual_years, start_year, end_year, cy) ==
    LET missing == missing_years(expected_years(start_year, end_year), actual_years)
        effective_missing == {y \in missing : y < cy}
        historical_missing == {y \in effective_missing : y < cy - 1}
    IN IF missing = {} THEN [kind |-> "return", range |-> <<0, 0>>]
       ELSE IF historical_missing # {}
       THEN [kind |-> "incremental", range |-> fetch_years(historical_missing, actual_years)]
       ELSE IF Cardinality(effective_missing) <= 1
       THEN [kind |-> "return", range |-> <<0, 0>>]
       ELSE [kind |-> "incremental", range |-> fetch_years(effective_missing, actual_years)]

\* ------------------------------------------- DataCache, run by one thread
\* data_cache.get(key) from start to end: the value and the directory after it
CacheGet(k, f, ino, t) ==
    LET cp == get_cache_path(k)
        cd == IF cp \in DOMAIN f THEN json_load(ino[f[cp]]) ELSE None
    IN IF cd = None THEN [val |-> None, files |-> f]
       ELSE IF Expired(The(cd), t) THEN [val |-> None, files |-> Remove(f, cp)]
       ELSE [val |-> Some(The(cd).data), files |-> f]

\* the directory and the inodes after data_cache.set(key, data) ran to its end
CacheSetFiles(k, f) ==
    LET tp == temp_path(k)
        n == IF tp \in DOMAIN f THEN f[tp] ELSE FreeIno(f, proc)
    IN (get_cache_path(k) :> n) @@ Remove(f, tp)

CacheSetInodes(k, data, f, ino, t) ==
    LET tp == temp_path(k)
        n == IF tp \in DOMAIN f THEN f[tp] ELSE FreeIno(f, proc)
    IN Collect((n :> Complete([timestamp |-> t, data |-> data])) @@ ino,
               CacheSetFiles(k, f), proc)

\* ------------------------------------------------ analyze_fundamentals
NoFrame == << >>

\* entry is what the cache file of the key held when the call began
AfIdle == [pc |-> "idle", start_year |-> 0, end_year |-> 0, key |-> << >>,
           incremental_update |-> FALSE, cached |-> None,
           fetch_start_date |-> 0, fetch_end_date |-> 0,
           audit_records |-> NoFrame,
           balance_df |-> NoFrame, income_df |-> NoFrame,
           fetched |-> None, result |-> None, entry |-> None]

FetchInit ==
    /\ af = AfIdle
    /\ calls = << >>

Call(api) == [api |-> api, start_date |-> af.fetch_start_date,
              end_date |-> af.fetch_end_date, ok |-> TRUE]

\* lines 894-1038: the cache lookup and what follows from it
AnalyzeBegin ==
    /\ af.pc \in {"idle", "done", "failed"}
    /\ requests # << >>
    /\ requests' = Tail(requests)
    /\ calls' = << >>
    /\ LET sy == Head(requests)[1]
           ey == Head(requests)[2]
           start_date == start_date_of(sy)
           end_date == end_date_of(ey)
           key == cache_key(ts_code, start_date, end_date, ey - sy + 1)
           got == CacheGet(key, files, inodes, now)
           begun == [AfIdle EXCEPT !.start_year = sy, !.end_year = ey, !.key = key,
                        !.fetch_start_date = start_date, !.fetch_end_date = end_date,
                        !.entry = Stored(key)]
           miss == [begun EXCEPT !.pc = "company"]
       IN IF got.val = None
          THEN \* no entry, or an expired one that get removed
               /\ af' = miss
               /\ files' = got.files
               /\ inodes' = Collect(inodes, got.files, proc)
          ELSE LET cached_data == The(got.val)
                   metrics_df == annual_only(cached_data.metrics_dict)
                   result == [metrics |-> metrics_df,
                              audit_records |-> cached_data.audit_records]
                   todo == cache_decision(YearsIn(metrics_df), sy, ey, current_year)
               IN IF cached_data.metrics_dict = << >> \/ metrics_df = << >>
                  THEN \* empty entry: data_cache.delete(cache_key), then a full fetch
                       /\ af' = miss
                       /\ files' = Remove(files, get_cache_path(key))
                       /\ inodes' = Collect(inodes, Remove(files, get_cache_path(key)), proc)
                  ELSE /\ af' = IF todo.kind = "return"
                                THEN [begun EXCEPT !.pc = "done", !.cached = Some(result),
                                                   !.result = Some(result)]
                                ELSE [begun EXCEPT !.pc = "company", !.cached = Some(result),
                                         !.incremental_update = TRUE,
                                         !.fetch_start_date = start_date_of(todo.range[1]),
                                         !.fetch_end_date = end_date_of(todo.range[2])]
                       /\ UNCHANGED <<files, inodes>>
    /\ UNCHANGED <<proc, now, lastSet, crashes, active, current_year, restVars>>

\* fetch_company_info(ts_code, use_cache=True, return_cache_status=True):
\* a fresh cache file is served; otherwise a stale or broken one is removed
\* and stock_company is called, whose failure is swallowed
CompanyInfo(outcome) ==
    /\ af.pc = "company"
    /\ LET ck == company_cache_key(ts_code)
           cp == get_cache_path(ck)
           cd == IF cp \in DOMAIN files THEN json_load(inodes[files[cp]]) ELSE None
           fresh == cd # None /\ now - The(cd).timestamp < company_expire_seconds
           f1 == IF cp \in DOMAIN files /\ ~fresh THEN Remove(files, cp) ELSE files
           i1 == Collect(inodes, f1, proc)
           info == [com_name |-> "Moutai"]
       IN IF fresh
          THEN /\ outcome = "data"
               /\ af' = [af EXCEPT !.pc = "audit"]
               /\ UNCHANGED <<files, inodes, calls>>
          ELSE /\ calls' = Append(calls, [api |-> "stock_company", start_date |-> 0,
                                          end_date |-> 0, ok |-> outcome # "error"])
               /\ IF outcome = "data"
                  THEN /\ af' = [af EXCEPT !.pc = "audit"]
                       /\ files' = CacheSetFiles(ck, f1)
                       /\ inodes' = CacheSetInodes(ck, info, f1, i1, now)
                  ELSE /\ af' = [af EXCEPT !.pc = "audit"]
                       /\ files' = f1
                       /\ inodes' = i1
    /\ UNCHANGED <<proc, now, lastSet, crashes, active, current_year, restVars, requests>>

\* (a slip: the exception of a read is swallowed and the next read is issued)
Raise_and_go_on(api) ==
    /\ af' = [af EXCEPT !.pc = CASE api = "fina_audit" -> "balance"
                                  [] api = "balancesheet" -> "income"
                                  [] api = "income" -> "cashflow"
                                  [] OTHER -> "failed"]
    /\ calls' = Append(calls, [Call(api) EXCEPT !.ok = FALSE])

\* an external read raises, or returns what the callee rejects: the exception
\* leaves analyze_fundamentals
Raise(api) ==
    /\ af' = [af EXCEPT !.pc = "failed", !.audit_records = NoFrame,
                        !.balance_df = NoFrame, !.income_df = NoFrame]
    /\ calls' = Append(calls, [Call(api) EXCEPT !.ok = FALSE])

\* fetch_audit_records(ts_code, fetch_start_date, fetch_end_date, max_records)
FetchAudit(dates) ==
    /\ af.pc = "audit"
    /\ IF dates = << >>
       THEN Raise("fina_audit")
       ELSE /\ af' = [af EXCEPT !.pc = "balance", !.audit_records = sort_desc(Rows(dates))]
            /\ calls' = Append(calls, Call("fina_audit"))
    /\ UNCHANGED <<cacheVars, current_year, restVars, requests>>

\* fetch_balancesheet(ts_code, fetch_start_date, fetch_end_date, max_records)
FetchBalance(dates) ==
    /\ af.pc = "balance"
    /\ LET df == filter_annual_records(Rows(dates), af.fetch_start_date, af.fetch_end_date)
       IN IF df = None
          THEN Raise("balancesheet")
          ELSE /\ af' = [af EXCEPT !.pc = "income", !.balance_df = The(df)]
               /\ calls' = Append(calls, Call("balancesheet"))
    /\ UNCHANGED <<cacheVars, current_year, restVars, requests>>

\* fetch_income(ts_code, fetch_start_date, fetch_end_date, max_records)
FetchIncome(dates) ==
    /\ af.pc = "income"
    /\ LET df == filter_annual_records(Rows(dates), af.fetch_start_date, af.fetch_end_date)
       IN IF df = None
          THEN Raise("income")
          ELSE /\ af' = [af EXCEPT !.pc = "cashflow", !.income_df = The(df)]
               /\ calls' = Append(calls, Call("income"))
    /\ UNCHANGED <<cacheVars, current_year, restVars, requests>>

\* (a slip: the cached rows are dropped)
combine_metrics_new_only(cached_metrics, merged) == merged

\* lines 1308-1355: the cached rows and the fetched rows, merged
combine_metrics(cached_metrics, merged) ==
    annual_only(sort_desc(keep_last(sort_asc(cached_metrics \o merged))))

\* lines 1341-1354: new records first, one record per end_date
combine_audits(audit_records, cached_audits) ==
    IF cached_audits = << >> THEN audit_records
    ELSE keep_first(sort_desc(audit_records \o cached_audits))

\* (a slip: the audit records are left out of the cache entry)
cache_payload_without_audits(merged, audits) ==
    [metrics_dict |-> to_records(annual_only(merged)), audit_records |-> << >>]

\* lines 1357-1383: cache_data, the year-end rows of merged and the audit records
cache_payload(merged, audits) ==
    [metrics_dict |-> to_records(annual_only(merged)), audit_records |-> to_records(audits)]

\* fetch_cashflow, then lines 1129-1391: merge, incremental merge, cache, return
FetchCashflow(dates) ==
    /\ af.pc = "cashflow"
    /\ LET df == filter_annual_records(Rows(dates), af.fetch_start_date, af.fetch_end_date)
       IN IF df = None
          THEN /\ Raise("cashflow")
               /\ UNCHANGED <<files, inodes>>
          ELSE LET fetched == merge_statements(af.balance_df, af.income_df, The(df))
                   incr == af.incremental_update /\ af.cached # None
                           /\ The(af.cached).metrics # << >>
                   merged == IF incr THEN combine_metrics(The(af.cached).metrics, fetched)
                             ELSE fetched
                   audits == IF incr
                             THEN combine_audits(af.audit_records,
                                                 The(af.cached).audit_records)
                             ELSE af.audit_records
                   result == [metrics |-> merged, audit_records |-> audits]
                   cache_data == cache_payload(merged, audits)
               IN /\ af' = [af EXCEPT !.pc = "done", !.result = Some(result),
                               !.audit_records = NoFrame, !.balance_df = NoFrame,
                               !.income_df = NoFrame,
                               !.fetched = Some([metrics |-> fetched,
                                                 audit_records |-> af.audit_records])]
                  /\ calls' = Append(calls, Call("cashflow"))
                  /\ files' = CacheSetFiles(af.key, files)
                  /\ inodes' = CacheSetInodes(af.key, cache_data, files, inodes, now)
    /\ UNCHANGED <<proc, now, lastSet, crashes, active, current_year, restVars, requests>>

\* the provider fails (network, permissions, rate limit)
ProviderError ==
    /\ af.pc \in {"audit", "balance", "income", "cashflow"}
    /\ Raise(CASE af.pc = "audit" -> "fina_audit"
               [] af.pc = "balance" -> "balancesheet"
               [] af.pc = "income" -> "income"
               [] OTHER -> "cashflow")
    /\ UNCHANGED <<cacheVars, current_year, restVars, requests>>

\* ------------------------------------------------------- get_api_delay
MaxWorkers == 10

ApiNames == {"stock_company", "fina_audit", "balancesheet", "income", "cashflow",
             "fina_indicator", "daily_basic"}

\* user_points tried: none given, and both sides of every tier boundary
UserPoints == {None} \cup {Some(x) : x \in {0, 119, 120, 599, 600, 2000, 4999, 5000}}

\* (a slip: stock_company paced like the financial endpoints, by tier)
get_api_delay_company_by_tier(api_name, user_points, max_workers) ==
    LET points == IF user_points = None THEN 2000 ELSE The(user_points)
        workers == IF max_workers < 1 THEN 1 ELSE max_workers
    IN IF points < 120 THEN 30000
       ELSE IF points < 600 THEN 12000
       ELSE (60000 * workers) \div 200

\* get_api_delay(api_name, user_points, max_workers), in milliseconds
get_api_delay(api_name, user_points, max_workers) ==
    LET points == IF user_points = None THEN 2000 ELSE The(user_points)
        workers == IF max_workers < 1 THEN 1 ELSE max_workers
    IN IF api_name = "stock_company" THEN 6000
       ELSE IF api_name \in {"fina_audit", "balancesheet", "income", "cashflow",
                             "fina_indicator"}
       THEN IF points < 120 THEN 30000
            ELSE IF points < 600 THEN 12000
            ELSE IF points < 5000 THEN (60000 * workers) \div 200
            ELSE (60000 * workers) \div 200
       ELSE (60000 * workers) \div 200

\* the per-minute limits the docstring of get_api_delay lists (lines 136-143)
ceiling(api_name, user_points) ==
    LET points == IF user_points = None THEN 2000 ELSE The(user_points)
    IN IF api_name = "stock_company" THEN 10
       ELSE IF points < 120 THEN 2
       ELSE IF points < 600 THEN 5
       ELSE 200

RateIdle == [api_name |-> "", user_points |-> None, max_workers |-> 0, ret |-> None]

\* a caller passes arguments
RateCall(api_name, user_points, max_workers) ==
    /\ rate.api_name = "" \/ rate.ret # None
    /\ rate' = [api_name |-> api_name, user_points |-> user_points,
                max_workers |-> max_workers, ret |-> None]
    /\ UNCHANGED <<cacheVars, current_year, af, calls, requests, paceVars, batchVars, srt, storeVars,
                   extraVars>>

\* get_api_delay returns
RateReturn ==
    /\ rate.api_name # ""
    /\ rate.ret = None
    /\ rate' = [rate EXCEPT !.ret = Some(get_api_delay(rate.api_name, rate.user_points,
                                                       rate.max_workers))]
    /\ UNCHANGED <<cacheVars, current_year, af, calls, requests, paceVars, batchVars, srt, storeVars,
                   extraVars>>

\* ------------------------------------- the pacing of analyze_fundamentals
MaxPaceWorkers == 3
MaxEntities == 2
Minute == 60000

PaceWorkers == 1..MaxPaceWorkers

PaceIdle ==
    /\ clock = 0
    /\ hint = [max_workers |-> 0, user_points |-> None, api_delay |-> 0]
    /\ pace = [w \in PaceWorkers |-> [pc |-> "done", wake |-> 0, left |-> 0]]
    /\ sent = {}

\* the running threads: as many as the hint says
Running == {w \in PaceWorkers : w <= hint.max_workers}

\* thread w issues an external read now
Send(w, api_name) == sent' = sent \cup {[api |-> api_name, t |-> clock, by |-> w]}

\* time.sleep(delay) after the read (lines 1078-1083, 1095-1122)
Sleep(api_name) ==
    LET base == get_api_delay(api_name, hint.user_points, hint.max_workers)
    IN IF hint.api_delay > 0 THEN base + hint.api_delay ELSE base

\* fetch_company_info: a hit costs no read and no sleep, a miss costs both
PaceCompany(w, hit) ==
    /\ w \in Running
    /\ pace[w].pc = "company"
    /\ pace[w].wake <= clock
    /\ IF hit
       THEN /\ pace' = [pace EXCEPT ![w].pc = "audit"]
            /\ UNCHANGED sent
       ELSE /\ Send(w, "stock_company")
            /\ pace' = [pace EXCEPT ![w].pc = "audit",
                                      ![w].wake = clock + Sleep("stock_company")]
    /\ UNCHANGED <<cacheVars, current_year, af, calls, requests, rate, clock, hint, batchVars, srt, storeVars,
                   extraVars>>

\* fina_audit, balancesheet, income: the read, then the sleep
PaceStatement(w) ==
    /\ w \in Running
    /\ pace[w].pc \in {"audit", "balance", "income"}
    /\ pace[w].wake <= clock
    /\ Send(w, CASE pace[w].pc = "audit" -> "fina_audit"
               [] pace[w].pc = "balance" -> "balancesheet"
               [] OTHER -> "income")
    /\ pace' = [pace EXCEPT ![w].pc = CASE pace[w].pc = "audit" -> "balance"
                                          [] pace[w].pc = "balance" -> "income"
                                          [] OTHER -> "cashflow",
                              ![w].wake = clock + Sleep("fina_audit")]
    /\ UNCHANGED <<cacheVars, current_year, af, calls, requests, rate, clock, hint, batchVars, srt, storeVars,
                   extraVars>>

\* cashflow: the read, no sleep after it; the thread goes on to its next entity
PaceCashflow(w) ==
    /\ w \in Running
    /\ pace[w].pc = "cashflow"
    /\ pace[w].wake <= clock
    /\ Send(w, "cashflow")
    /\ pace' = [pace EXCEPT ![w].pc = IF pace[w].left > 1 THEN "company" ELSE "done",
                              ![w].left = pace[w].left - 1]
    /\ UNCHANGED <<cacheVars, current_year, af, calls, requests, rate, clock, hint, batchVars, srt, storeVars,
                   extraVars>>

\* nothing can run: time passes until the first sleeper wakes
PaceAdvance ==
    LET busy == {w \in Running : pace[w].pc # "done"}
        next == SetMin({pace[w].wake : w \in busy})
    IN /\ busy # {}
       /\ \A w \in busy : pace[w].wake > clock
       /\ clock' = next
       /\ sent' = {c \in sent : c.t > next - Minute}
       /\ UNCHANGED <<cacheVars, current_year, af, calls, requests, rate, hint, pace, batchVars, srt, storeVars,
                   extraVars>>

\* ------------------------------------------------ StockScreener (screening.py)
MaxStocks == 2
MaxPool == 2

Stocks == 1..MaxStocks

\* max_workers as the caller may give it
PoolSizes == 1..MaxPool

\* api_delay as the caller gives it, in milliseconds (the default is 0.1 s)
caller_api_delay == 100

\* line 553: at most 50 threads for the stocks that have a cache entry
max_cache_workers == 50

\* start_year and end_year of the run, and the year it runs in
ScreenWindow == [start_year |-> 2023, end_year |-> 2025, current_year |-> 2025]

\* the annual reports the provider holds for the window
Published == {y \in ScreenWindow.start_year..ScreenWindow.end_year : y < ScreenWindow.current_year}

\* what data_cache may hold under a stock's window key: nothing (or an expired
\* entry), every published year, or an entry without the oldest year
Entries == {None, Some(Published), Some(Published \ {ScreenWindow.start_year})}

\* analyze_fundamentals serves the entry without an external read
FastPath(entry) ==
    /\ entry # None
    /\ cache_decision(The(entry), ScreenWindow.start_year, ScreenWindow.end_year,
                      ScreenWindow.current_year).kind = "return"

\* per stock: the data_cache entry, whether the provider answers, what the two
\* evaluations say of its data, its screening_cache entry, its external reads
Markets ==
    [entry : Entries, up : {"ok", "error"}, verdict : {"pass", "fail"},
     memo : {None}, ext : {0}]

\* lines 92-119: any entry that data_cache.get returns counts
check_cache_exists(m) == m.entry # None

\* lines 330-449: the memory cache, analyze_fundamentals (four financial reads
\* unless the entry serves the window; an upstream error is caught at 444 and
\* gives None), check_fundamentals_pass, check_valuation_pass (one read of
\* fetch_valuation_data, never cached), the debug message of 407-416 whose
\* format specification raises ValueError, the result and its memory entry
analyze_single_stock(m, debug_callback) ==
    IF m.memo # None THEN [result |-> m.memo, after |-> m, raised |-> FALSE]
    ELSE IF ~FastPath(m.entry) /\ m.up = "error"
    THEN [result |-> None, after |-> [m EXCEPT !.ext = @ + 1], raised |-> FALSE]
    ELSE LET fetched == IF FastPath(m.entry) THEN m
                        ELSE [m EXCEPT !.ext = @ + 4, !.entry = Some(Published)]
             valued == [fetched EXCEPT !.ext = @ + 1]
         IN IF debug_callback
            THEN [result |-> None, after |-> valued, raised |-> FALSE]
            ELSE [result |-> Some(m.verdict = "pass"),
                  after |-> [valued EXCEPT !.memo = Some(m.verdict = "pass")],
                  raised |-> FALSE]

Range(seq) == {seq[i] : i \in DOMAIN seq}

\* final_pr, the ranking value of a stock that passed
final_pr(e) == MaxStocks - e

\* float('inf'): above every ranking value
inf == 1000

\* (a slip: a missing value counts as zero)
get_sort_key_none_as_zero(stock) ==
    IF stock.final_pr = None THEN 0 ELSE The(stock.final_pr)

\* lines 728-732: the final_pr of the stock, inf when it has none
get_sort_key(stock) ==
    IF stock.final_pr = None THEN inf ELSE The(stock.final_pr)

RECURSIVE list_sort(_, _)
\* list.sort(key=...) of line 734: ascending and stable; key is given as a
\* function on the elements
list_sort(seq, key) ==
    IF seq = << >> THEN << >>
    ELSE LET rest == list_sort(Tail(seq), key)
             k == Cardinality({i \in DOMAIN rest : key[rest[i]] < key[Head(seq)]})
         IN SubSeq(rest, 1, k) \o <<Head(seq)>> \o SubSeq(rest, k + 1, Len(rest))

\* passed_stocks.sort(key=get_sort_key) on the stocks of a run
sort_by_pr(seq) ==
    list_sort(seq, [e \in Range(seq) |-> get_sort_key([final_pr |-> Some(final_pr(e))])])

\* the sort on its own: stocks with and without a ranking value, in any order
MaxPr == 2

Ranked == [ts_code : Stocks, final_pr : {None} \cup {Some(n) : n \in 0..MaxPr}]

SortIdle == [passed_stocks |-> << >>, sorted |-> None]

SortCall(seq) ==
    /\ srt.sorted # None \/ srt = SortIdle
    /\ srt' = [passed_stocks |-> seq, sorted |-> None]
    /\ UNCHANGED <<cacheVars, current_year, af, calls, requests, rate, paceVars, batchVars,
                   storeVars, extraVars>>

SortReturn ==
    /\ srt.sorted = None
    /\ srt.passed_stocks # << >>
    /\ srt' = [srt EXCEPT !.sorted =
                  Some(list_sort(srt.passed_stocks,
                                 [x \in Range(srt.passed_stocks) |-> get_sort_key(x)]))]
    /\ UNCHANGED <<cacheVars, current_year, af, calls, requests, rate, paceVars, batchVars,
                   storeVars, extraVars>>

NoTally == [e \in Stocks |-> [passed |-> 0, failed |-> 0]]

ScrIdle ==
    [pc |-> "idle", progress_callback |-> FALSE, debug_callback |-> FALSE,
     stock_list |-> << >>, idx |-> 0, cached_stocks |-> << >>, uncached_stocks |-> << >>,
     passed_stocks |-> << >>, failed_count |-> 0, completed |-> 0,
     batch |-> None, pending |-> {}, reports |-> << >>,
     counted |-> NoTally, covered |-> {}, error |-> "",
     max_workers |-> 0, api_delay |-> 0, running |-> {}, ran |-> {}, stop |-> FALSE]

BatchIdle ==
    /\ market = [e \in Stocks |-> [entry |-> None, up |-> "ok", verdict |-> "fail",
                                   memo |-> None, ext |-> 0]]
    /\ scr = ScrIdle

\* screen_all_stocks is called, with or without the two callbacks
ScreenInit ==
    /\ market \in [Stocks -> Markets]
    /\ scr \in {[ScrIdle EXCEPT !.pc = "list", !.progress_callback = p, !.debug_callback = d,
                                 !.max_workers = n, !.api_delay = caller_api_delay] :
                    p \in BOOLEAN, d \in BOOLEAN, n \in PoolSizes}

\* lines 492-517: get_a_stock_list returns n stocks, or raises and the run
\* ends with ValueError
GetStockList(n, ok) ==
    /\ scr.pc = "list"
    /\ scr' = IF ok THEN [scr EXCEPT !.pc = "scan", !.stock_list = [i \in 1..n |-> i],
                                     !.covered = {e \in 1..n : FastPath(market[e].entry)}]
              ELSE [scr EXCEPT !.pc = "raised", !.error = "ValueError"]
    /\ UNCHANGED <<cacheVars, current_year, af, calls, requests, rate, paceVars, market, srt, storeVars,
                   extraVars>>

\* lines 519-543: the probe of the next stock of the list
Scan ==
    /\ scr.pc = "scan"
    /\ scr.idx < Len(scr.stock_list)
    /\ LET ts == scr.stock_list[scr.idx + 1]
       IN scr' = [scr EXCEPT
                    !.idx = @ + 1,
                    !.cached_stocks = IF check_cache_exists(market[ts])
                                      THEN Append(@, ts) ELSE @,
                    !.uncached_stocks = IF check_cache_exists(market[ts])
                                        THEN @ ELSE Append(@, ts)]
    /\ UNCHANGED <<cacheVars, current_year, af, calls, requests, rate, paceVars, market, srt, storeVars,
                   extraVars>>

\* the group that phase 2.1 (lines 551-576) or phase 2.2 (lines 579-604) handles
Group(s) == IF s.pc = "CACHED" THEN s.cached_stocks ELSE s.uncached_stocks

AfterGroup(s) == IF s.pc = "CACHED" THEN "UNCACHED" ELSE "pool"

\* line 545: the scan is over, phase 2 begins
ScanDone ==
    /\ scr.pc = "scan"
    /\ scr.idx = Len(scr.stock_list)
    /\ scr' = [scr EXCEPT !.pc = "CACHED"]
    /\ UNCHANGED <<cacheVars, current_year, af, calls, requests, rate, paceVars, market, srt, storeVars,
                   extraVars>>

\* lines 551-604 as the class stands: an empty group is skipped; for any other
\* the attribute lookup of self._process_stock_batch fails, StockScreener
\* defines no such method, and AttributeError leaves screen_all_stocks
ProcessGroup ==
    /\ scr.pc \in {"CACHED", "UNCACHED"}
    /\ scr' = IF Group(scr) = << >> THEN [scr EXCEPT !.pc = AfterGroup(scr)]
              ELSE [scr EXCEPT !.pc = "raised", !.error = "AttributeError"]
    /\ UNCHANGED <<cacheVars, current_year, af, calls, requests, rate, paceVars, market, srt, storeVars,
                   extraVars>>

Tally(s, e, p, f) ==
    [s.counted EXCEPT ![e] = [passed |-> @.passed + p, failed |-> @.failed + f]]

\* _process_stock_batch begins on a group (an empty group is skipped, lines
\* 551 and 579)
BatchBegin ==
    /\ scr.pc \in {"CACHED", "UNCACHED"}
    /\ scr.batch = None
    /\ scr' = IF Group(scr) = << >> THEN [scr EXCEPT !.pc = AfterGroup(scr)]
              ELSE [scr EXCEPT !.batch =
                        Some([todo |-> Range(Group(scr)), passed |-> << >>, failed |-> 0,
                              workers |-> IF scr.pc = "CACHED"
                                          THEN Min(max_cache_workers, Len(scr.cached_stocks))
                                          ELSE scr.max_workers,
                              api_delay |-> IF scr.pc = "CACHED" THEN 0 ELSE scr.api_delay])]
    /\ UNCHANGED <<cacheVars, current_year, af, calls, requests, rate, paceVars, market, srt, storeVars,
                   extraVars>>

\* a thread of the group's pool begins on a stock
BatchStart(e) ==
    /\ scr.batch # None
    /\ e \in The(scr.batch).todo \ scr.running
    /\ Cardinality(scr.running) < The(scr.batch).workers
    /\ scr' = [scr EXCEPT !.running = @ \cup {e},
                          !.ran = @ \cup {[ts_code |-> e, phase |-> scr.pc,
                                           api_delay |-> The(scr.batch).api_delay]}]
    /\ UNCHANGED <<cacheVars, current_year, af, calls, requests, rate, paceVars, market, srt, storeVars,
                   extraVars>>

\* _process_stock_batch takes the result of one stock of its group
BatchStep(e) ==
    /\ scr.batch # None
    /\ e \in The(scr.batch).todo \cap scr.running
    /\ LET r == analyze_single_stock(market[e], scr.debug_callback)
           b == The(scr.batch)
           pass == r.result # None /\ The(r.result)
       IN /\ market' = [market EXCEPT ![e] = r.after]
          /\ scr' = [scr EXCEPT
                       !.batch = Some([b EXCEPT
                                         !.todo = @ \ {e},
                                         !.passed = IF pass THEN Append(@, e) ELSE @,
                                         !.failed = IF pass THEN @ ELSE @ + 1]),
                       !.running = @ \ {e},
                       !.counted = IF pass THEN Tally(scr, e, 1, 0) ELSE Tally(scr, e, 0, 1)]
    /\ UNCHANGED <<cacheVars, current_year, af, calls, requests, rate, paceVars, srt, storeVars,
                   extraVars>>

\* _process_stock_batch returns (passed, failed); lines 575-576 and 601-602
BatchReturn ==
    /\ scr.batch # None
    /\ The(scr.batch).todo = {}
    /\ scr' = [scr EXCEPT !.passed_stocks = @ \o The(scr.batch).passed,
                          !.failed_count = @ + The(scr.batch).failed,
                          !.batch = None,
                          !.pc = AfterGroup(scr)]
    /\ UNCHANGED <<cacheVars, current_year, af, calls, requests, rate, paceVars, market, srt, storeVars,
                   extraVars>>

\* lines 611-637: every stock of the list is submitted to the pool
Submit ==
    /\ scr.pc = "pool"
    /\ scr' = [scr EXCEPT !.pc = "wait", !.pending = Range(scr.stock_list), !.completed = 0]
    /\ UNCHANGED <<cacheVars, current_year, af, calls, requests, rate, paceVars, market, srt, storeVars,
                   extraVars>>

\* the message of lines 697-700: completed, passed so far, failed so far
Report(s) ==
    IF s.progress_callback
    THEN [s EXCEPT !.reports = Append(@, [completed |-> s.completed,
                                          passed |-> Len(s.passed_stocks),
                                          failed |-> s.failed_count,
                                          total |-> Len(s.stock_list)])]
    ELSE s

\* the loop body with a failed analysis ending the loop
Handled_abort_on_failure(s, e, r) ==
    IF r.result # None
    THEN IF The(r.result)
         THEN LET appended == [s EXCEPT !.passed_stocks = Append(@, e),
                                        !.pending = @ \ {e},
                                        !.counted = Tally(s, e, 1, 0)]
              IN IF s.progress_callback
                 THEN [appended EXCEPT !.failed_count = @ + 1,
                                       !.counted = Tally(appended, e, 0, 1)]
                 ELSE [appended EXCEPT !.completed = @ + 1]
         ELSE Report([s EXCEPT !.failed_count = @ + 1, !.completed = @ + 1,
                               !.pending = @ \ {e}, !.counted = Tally(s, e, 0, 1)])
    ELSE Report([s EXCEPT !.failed_count = @ + 1, !.completed = @ + 1,
                          !.pending = {}, !.counted = Tally(s, e, 0, 1)])

\* lines 639-724, the body of the as_completed loop for the future of stock e
\* with result r.  A stock that passed is appended (line 656); with a progress
\* callback the message of lines 659-665 then raises ValueError (its format
\* specification is ".4f if isinstance(...) else pr"), line 716 catches it
\* and counts the stock as failed, and completed stays as it was.
Handled(s, e, r) ==
    IF r.result # None
    THEN IF The(r.result)
         THEN LET appended == [s EXCEPT !.passed_stocks = Append(@, e),
                                        !.pending = @ \ {e},
                                        !.counted = Tally(s, e, 1, 0)]
              IN IF s.progress_callback
                 THEN [appended EXCEPT !.failed_count = @ + 1,
                                       !.counted = Tally(appended, e, 0, 1)]
                 ELSE [appended EXCEPT !.completed = @ + 1]
         ELSE Report([s EXCEPT !.failed_count = @ + 1, !.completed = @ + 1,
                               !.pending = @ \ {e}, !.counted = Tally(s, e, 0, 1)])
    ELSE Report([s EXCEPT !.failed_count = @ + 1, !.completed = @ + 1,
                          !.pending = @ \ {e}, !.counted = Tally(s, e, 0, 1)])

\* lines 611-632: a thread of ThreadPoolExecutor(max_workers) begins on a
\* submitted stock, with the caller's api_delay
FutureStart(e) ==
    /\ scr.pc = "wait"
    /\ e \in scr.pending \ scr.running
    /\ Cardinality(scr.running) < scr.max_workers
    /\ scr' = [scr EXCEPT !.running = @ \cup {e},
                          !.ran = @ \cup {[ts_code |-> e, phase |-> "pool",
                                           api_delay |-> scr.api_delay]}]
    /\ UNCHANGED <<cacheVars, current_year, af, calls, requests, rate, paceVars, market, srt, storeVars,
                   extraVars>>

\* a future completes: analyze_single_stock ran in a pool thread, the loop
\* takes its result
FutureDone(e) ==
    /\ scr.pc = "wait"
    /\ e \in scr.pending \cap scr.running
    /\ LET r == analyze_single_stock(market[e], scr.debug_callback)
       IN /\ market' = [market EXCEPT ![e] = r.after]
          /\ scr' = [Handled(scr, e, r) EXCEPT !.running = @ \ {e}]
    /\ UNCHANGED <<cacheVars, current_year, af, calls, requests, rate, paceVars, srt, storeVars,
                   extraVars>>

\* the caller wants the run to stop; screen_all_stocks takes no stop signal
\* and reads none
RequestStop ==
    /\ scr.pc = "wait"
    /\ scr.pending # {}
    /\ ~scr.stop
    /\ scr' = [scr EXCEPT !.stop = TRUE]
    /\ UNCHANGED <<cacheVars, current_year, af, calls, requests, rate, paceVars, market, srt, storeVars,
                   extraVars>>

\* lines 727-737: the sort and the return
Return ==
    /\ scr.pc = "wait"
    /\ scr.pending = {}
    /\ scr' = [scr EXCEPT !.pc = "returned", !.passed_stocks = sort_by_pr(@)]
    /\ UNCHANGED <<cacheVars, current_year, af, calls, requests, rate, paceVars, market, srt, storeVars,
                   extraVars>>

\* what the other components are when a specification leaves them alone
\* no DataCache call made yet, the cache directory empty
StoreIdle == disk = NoFiles /\ sop = [op |-> "idle"] /\ wrote = None

\* ------------------------------------- analyze_single_stock and the prices
MaxPrice == 3

\* pr_threshold as the caller may give it
Thresholds == {1, 2}

\* f"{ts_code}_{pr_threshold}_{min_roe}_{start_year}_{end_year}", the window
\* and min_roe being those of the run
screening_cache_key(code, pr_threshold) == <<code, pr_threshold>>

ScreenKeys == {screening_cache_key(code, t) : code \in Stocks, t \in Thresholds}

ValueIdle == [price |-> [code \in Stocks |-> 1],
              screening_cache |-> [k \in ScreenKeys |-> None],
              last |-> [op |-> "idle"]]

ExtraIdle == vs = ValueIdle /\ pk = [op |-> "idle"] /\ fc = [op |-> "idle"] /\ pg = [op |-> "idle"]
             /\ tw = [op |-> "idle"]

RestIdle == rate = RateIdle /\ PaceIdle /\ BatchIdle /\ srt = SortIdle /\ StoreIdle /\ ExtraIdle

\* the caller (screening.py, app.py) asks for a window
Ask(w) ==
    /\ af.pc \in {"idle", "done", "failed"}
    /\ requests = << >>
    /\ requests' = <<w>>
    /\ UNCHANGED <<cacheVars, current_year, restVars, af, calls>>

\* one entity, one window, asked for again and again
InitFetch ==
    /\ CacheInit
    /\ active = {}
    /\ FetchInit
    /\ RestIdle
    /\ requests = << >>
    /\ current_year \in CurrentYears

NextFetch ==
    \/ Ask(Window)
    \/ AnalyzeBegin
    \/ \E outcome \in {"data", "empty", "error"} : CompanyInfo(outcome)
    \/ \E dates \in AuditResponses[current_year] : FetchAudit(dates)
    \/ \E dates \in StatementResponses[current_year] : FetchBalance(dates)
    \/ \E dates \in StatementResponses[current_year] : FetchIncome(dates)
    \/ \E dates \in StatementResponses[current_year] : FetchCashflow(dates)
    \/ ProviderError

SpecFetch == InitFetch /\ [][NextFetch]_vars

\* an earlier fetch and a later one whose window is the same or wider
InitGrow ==
    /\ CacheInit
    /\ active = {}
    /\ FetchInit
    /\ RestIdle
    /\ requests \in {<<NarrowWindow, Window>>, <<NarrowWindow, NarrowWindow>>,
                      <<Window, Window>>}
    /\ current_year \in CurrentYears

NextGrow ==
    \/ AnalyzeBegin
    \/ \E outcome \in {"data", "empty", "error"} : CompanyInfo(outcome)
    \/ \E dates \in AuditResponses[current_year] : FetchAudit(dates)
    \/ \E dates \in StatementResponses[current_year] : FetchBalance(dates)
    \/ \E dates \in StatementResponses[current_year] : FetchIncome(dates)
    \/ \E dates \in StatementResponses[current_year] : FetchCashflow(dates)
    \/ ProviderError

SpecGrow == InitGrow /\ [][NextGrow]_vars

\* ------------------------------------------- DataCache._get_cache_path
\* Strings are sequences of one-character strings here, so that the name of
\* a cache file is computed from its key character by character. (The thread
\* model above names a file by its key; nothing there depends on the name.)
LowerCase == <<"a", "b", "c", "d", "e", "f", "g", "h", "i", "j", "k", "l", "m",
               "n", "o", "p", "q", "r", "s", "t", "u", "v", "w", "x", "y", "z">>

UpperCase == <<"A", "B", "C", "D", "E", "F", "G", "H", "I", "J", "K", "L", "M",
               "N", "O", "P", "Q", "R", "S", "T", "U", "V", "W", "X", "Y", "Z">>

Digits == <<"0", "1", "2", "3", "4", "5", "6", "7", "8", "9">>

HexDigits == Digits \o <<"a", "b", "c", "d", "e", "f">>

\* the characters [a-zA-Z0-9_-] of line 66
SafeChars == Range(LowerCase) \cup Range(UpperCase) \cup Range(Digits) \cup {"_", "-"}

\* str.upper()
upper(str) ==
    [i \in DOMAIN str |->
        IF str[i] \in Range(LowerCase)
        THEN UpperCase[CHOOSE n \in DOMAIN LowerCase : LowerCase[n] = str[i]]
        ELSE str[i]]

\* str.strip(), on strings whose only whitespace is the space
strip(str) ==
    LET inked == {i \in DOMAIN str : str[i] # " "}
    IN IF inked = {} THEN << >> ELSE SubSeq(str, SetMin(inked), SetMax(inked))

\* re.sub(r'[^a-zA-Z0-9_-]', '_', key)
re_sub(key) == [i \in DOMAIN key |-> IF key[i] \in SafeChars THEN key[i] ELSE "_"]

\* os.path.basename: what follows the last slash
basename(path) ==
    LET slashes == {i \in DOMAIN path : path[i] = "/"}
    IN IF slashes = {} THEN path ELSE SubSeq(path, SetMax(slashes) + 1, Len(path))

\* os.path.dirname: what precedes the last slash
dirname(path) ==
    LET slashes == {i \in DOMAIN path : path[i] = "/"}
    IN IF slashes = {} THEN << >> ELSE SubSeq(path, 1, SetMax(slashes) - 1)

\* the place of a character in an alphabet, which stands for its code point
Ord ==
    LET all == LowerCase \o UpperCase \o Digits \o <<"_", "-", "/", " ", ".">>
    IN [c \in Range(all) |-> CHOOSE n \in DOMAIN all : all[n] = c]

\* hashlib.md5(key.encode('utf-8')).hexdigest(): 32 lower-case hexadecimal
\* digits that depend on the characters of the key and their places; the
\* digest itself is a stand-in
md5_hexdigest(key) ==
    [j \in 1..32 |->
        HexDigits[((Cardinality({i \in DOMAIN key : (Ord[key[i]] * j + i) % 7 = 0})
                      + Len(key)) % 16) + 1]]

\* the keys longer than this are hashed (line 60)
max_key_length == 200

\* the length of the readable prefix of a hashed key (line 63)
prefix_length == 50

reserved_names ==
    {<<"C", "O", "N">>, <<"P", "R", "N">>, <<"A", "U", "X">>, <<"N", "U", "L">>}
        \cup {<<"C", "O", "M", Digits[d + 1]>> : d \in 1..9}
        \cup {<<"L", "P", "T", Digits[d + 1]>> : d \in 1..9}

cache_dir == <<"d", "a", "t", "a", "/", "c", "a", "c", "h", "e">>

\* (a slip: only the empty key is refused)
invalid_key_empty_only(key) == key = << >>

\* line 56: not key or not key.strip()
invalid_key(key) == key = << >> \/ strip(key) = << >>

\* lines 59-78, for a key that line 56 lets through
get_cache_file_path(key) ==
    LET named == IF Len(key) > max_key_length
                 THEN SubSeq(key, 1, prefix_length) \o <<"_">> \o md5_hexdigest(key)
                 ELSE re_sub(key)
        based == basename(named)
        safe_key == IF upper(based) \in reserved_names THEN <<"_">> \o based ELSE based
    IN cache_dir \o <<"/">> \o safe_key \o <<".", "j", "s", "o", "n">>

\* the keys tried: every string of up to MaxKeyLen of these characters, and
\* each of them again inside a key of more than max_key_length characters, at
\* its head (in the readable prefix) and after the prefix
MaxKeyLen == 3

KeyChars == {"n", "u", "l", "_", "/", " "}

ShortKeys == UNION {[1..n -> KeyChars] : n \in 0..MaxKeyLen}

Filler(n) == [i \in 1..n |-> "a"]

LongKeys ==
    {k \o Filler(max_key_length + 1 - Len(k)) : k \in ShortKeys}
        \cup {Filler(prefix_length) \o k \o Filler(max_key_length - prefix_length) :
                 k \in ShortKeys}

\* everything but the cache directory of the sequential store
StoreFrame == <<files, inodes, proc, now, lastSet, crashes, active, current_year, af, calls,
                requests, rate, paceVars, batchVars, srt, extraVars>>

\* DataCache.get_cache_file_path(key), lines 80-90, on the key asked for: the
\* path, or ValueError
PathOf ==
    /\ sop.op = "ask"
    /\ sop' = IF invalid_key(sop.key)
              THEN [op |-> "get_cache_file_path", key |-> sop.key, raised |-> "ValueError"]
              ELSE [op |-> "get_cache_file_path", key |-> sop.key, raised |-> "",
                    ret |-> get_cache_file_path(sop.key)]
    /\ UNCHANGED <<StoreFrame, disk, wrote>>

\* ------------------------------------------- DataCache, one call at a time
\* A cache file holds the document json.dump wrote, or text json.load refuses.
Garbage == [json |-> FALSE, timestamp |-> 0, data |-> ""]

\* json.dump of the document {'timestamp': ..., 'data': ...}
encode(t, data) == [json |-> TRUE, timestamp |-> t, data |-> data]

\* json.load: the document, or nothing when the text is not one
decode(text) ==
    IF text.json THEN Some([timestamp |-> text.timestamp, data |-> text.data]) ELSE None

\* time.time() goes up to MaxDay, in ticks of a day; between two calls pass
\* two days or ten
MaxDay == 12

Waits == {2, 10}

\* f"company_info_{ts_code}" for one stock
CompanyKey ==
    <<"c", "o", "m", "p", "a", "n", "y", "_", "i", "n", "f", "o", "_",
      "6", "0", "0", "5", "1", "9", ".", "S", "H">>

\* the keys the callers of get, set and delete pass: two cache keys that differ
\* in one character, the empty key and a blank one
StoreKeys == {<<"a", "/", "b">>, <<"a", "_", "b">>, << >>, <<" ">>}

StorePayloads == {"x", "y"}

\* self._get_cache_path(key) for the keys of the store, computed once
PathTable ==
    [key \in {k \in StoreKeys \cup {CompanyKey} : ~invalid_key(k)} |-> get_cache_file_path(key)]

cache_path_of(key) == PathTable[key]

\* DataCache.get, lines 102-122, for a key that line 56 lets through
store_get(d, key, t) ==
    LET cache_path == cache_path_of(key)
        cache_data == IF cache_path \in DOMAIN d THEN decode(d[cache_path]) ELSE None
    IN IF cache_data = None THEN [ret |-> None, disk |-> d]
       ELSE IF Expired(The(cache_data), t)
            THEN [ret |-> None, disk |-> Remove(d, cache_path)]
            ELSE [ret |-> Some(The(cache_data).data), disk |-> d]

\* cache_path + '.tmp'
tmp_path(cache_path) == cache_path \o <<".", "t", "m", "p">>

\* (a slip: the temporary file is left where it is)
set_except_keeps_temp(d, temp_path_) == d

\* lines 185-194: the except branch of set removes the temporary file if it
\* is there
set_except(d, temp_path_) ==
    IF temp_path_ \in DOMAIN d THEN Remove(d, temp_path_) ELSE d

\* lines 158-172 of a call that fails: "convert" fails before the temporary
\* file is opened, "dump" in json.dump, with the file opened and part of the
\* document in it
set_failure(d, cache_path, io) ==
    IF io = "dump" THEN (tmp_path(cache_path) :> Garbage) @@ Remove(d, tmp_path(cache_path))
    ELSE d

\* (a slip: an entry that is there already is removed instead of replaced)
store_set_toggles(d, key, data, t, io) ==
    LET cache_path == cache_path_of(key)
    IN IF io # "ok" THEN [ret |-> FALSE, disk |-> d]
       ELSE IF cache_path \in DOMAIN d THEN [ret |-> TRUE, disk |-> Remove(d, cache_path)]
       ELSE [ret |-> TRUE, disk |-> (cache_path :> encode(t, data)) @@ d]

\* DataCache.set, lines 141-194: the document goes to the temporary file and
\* replaces the cache file; when writing fails the temporary file is removed
store_set(d, key, data, t, io) ==
    LET cache_path == cache_path_of(key)
    IN IF io # "ok"
       THEN [ret |-> FALSE,
             disk |-> set_except(set_failure(d, cache_path, io), tmp_path(cache_path))]
       ELSE [ret |-> TRUE,
             disk |-> (cache_path :> encode(t, data)) @@ Remove(d, cache_path)]

\* DataCache.delete, lines 208-214
store_delete(d, key) ==
    LET cache_path == cache_path_of(key)
    IN [ret |-> TRUE,
        disk |-> IF cache_path \in DOMAIN d THEN Remove(d, cache_path) ELSE d]

\* (a slip: a file that cannot be decoded is left alone)
clear_expired_keeps_broken(d, t) ==
    LET kept == {p \in DOMAIN d : decode(d[p]) = None \/ ~Expired(The(decode(d[p])), t)}
    IN [ret |-> Cardinality(DOMAIN d \ kept), disk |-> [p \in kept |-> d[p]]]

\* DataCache.clear_expired, lines 241-265: every *.json file that is older
\* than expire_seconds or cannot be decoded is removed and counted
clear_expired(d, t) ==
    LET kept == {p \in DOMAIN d : decode(d[p]) # None /\ ~Expired(The(decode(d[p])), t)}
    IN [ret |-> Cardinality(DOMAIN d \ kept), disk |-> [p \in kept |-> d[p]]]

\* the set call before this one, when nothing but time came between
LastSet == IF sop.op = "set" /\ sop.raised = "" THEN Some([key |-> sop.key, data |-> sop.data,
                                                            ret |-> sop.ret,
                                                            served |-> sop.served])
           ELSE None

KGet(key) ==
    /\ IF invalid_key(key)
       THEN /\ sop' = [op |-> "get", key |-> key, raised |-> "ValueError", before |-> disk]
            /\ UNCHANGED disk
       ELSE LET r == store_get(disk, key, now)
            IN /\ sop' = [op |-> "get", key |-> key, raised |-> "", ret |-> r.ret,
                          before |-> disk]
               /\ disk' = r.disk
    /\ UNCHANGED <<StoreFrame, wrote>>

KSet(key, data, io) ==
    /\ IF invalid_key(key)
       THEN /\ sop' = [op |-> "set", key |-> key, raised |-> "ValueError", before |-> disk]
            /\ UNCHANGED disk
       ELSE LET r == store_set(disk, key, data, now, io)
            IN /\ sop' = [op |-> "set", key |-> key, data |-> data, raised |-> "", io |-> io,
                          ret |-> r.ret, before |-> disk, prev |-> LastSet,
                          served |-> store_get(r.disk, key, now).ret]
               /\ disk' = r.disk
    /\ UNCHANGED <<StoreFrame, wrote>>

KDelete(key) ==
    /\ IF invalid_key(key)
       THEN /\ sop' = [op |-> "delete", key |-> key, raised |-> "ValueError", before |-> disk]
            /\ UNCHANGED disk
       ELSE LET r == store_delete(disk, key)
            IN /\ sop' = [op |-> "delete", key |-> key, raised |-> "", ret |-> r.ret,
                          before |-> disk]
               /\ disk' = r.disk
    /\ UNCHANGED <<StoreFrame, wrote>>

ClearExpired ==
    /\ LET r == clear_expired(disk, now)
       IN /\ sop' = [op |-> "clear_expired", raised |-> "", ret |-> r.ret, before |-> disk,
                     at |-> now]
          /\ disk' = r.disk
    /\ UNCHANGED <<StoreFrame, wrote>>

\* something outside the program leaves a cache file that is not a document
Corrupt(path) ==
    /\ path \in DOMAIN disk
    /\ disk[path] # Garbage
    /\ disk' = [disk EXCEPT ![path] = Garbage]
    /\ sop' = [op |-> "corrupt"]
    /\ wrote' = IF path = cache_path_of(CompanyKey) THEN None ELSE wrote
    /\ UNCHANGED StoreFrame

\* time passes between two calls
Wait(d) ==
    /\ now + d <= MaxDay
    /\ now' = now + d
    /\ UNCHANGED <<files, inodes, proc, lastSet, crashes, active, fetchVars>>

\* fetch_company_info(ts_code, use_cache=True, return_cache_status=True),
\* utils.py 532-670, on the cache directory of the store
FetchCompanyInfo(outcome) ==
    /\ LET cache_path == cache_path_of(CompanyKey)
           there == cache_path \in DOMAIN disk
           cache_data == IF there THEN decode(disk[cache_path]) ELSE None
           fresh == cache_data # None /\ now - The(cache_data).timestamp < company_expire_seconds
           d1 == IF there /\ ~fresh THEN Remove(disk, cache_path) ELSE disk
           info == "company_info"
           \* lines 649-669: what the handler of a failed call finds at the path
           left == IF cache_path \in DOMAIN d1 THEN decode(d1[cache_path]) ELSE None
       IN IF fresh
          THEN /\ outcome = "data"
               /\ sop' = [op |-> "fetch_company_info", raised |-> "", before |-> disk,
                          ret |-> Some(The(cache_data).data), hit |-> TRUE, ext |-> FALSE,
                          at |-> now, api |-> "none"]
               /\ UNCHANGED <<disk, wrote>>
          ELSE IF outcome = "data"
               THEN /\ disk' = (cache_path :> encode(now, info)) @@ d1
                    /\ wrote' = Some(now)
                    /\ sop' = [op |-> "fetch_company_info", raised |-> "", before |-> disk,
                               ret |-> Some(info), hit |-> FALSE, ext |-> TRUE,
                               at |-> now, api |-> outcome]
               ELSE /\ disk' = d1
                    /\ UNCHANGED wrote
                    /\ sop' = [op |-> "fetch_company_info", raised |-> "", before |-> disk,
                               ret |-> IF outcome = "error" /\ left # None
                                       THEN Some(The(left).data) ELSE None,
                               hit |-> outcome = "error" /\ left # None, ext |-> TRUE,
                               at |-> now, api |-> outcome]
    /\ UNCHANGED StoreFrame

\* a month and more of days
MaxMonthDay == 70

\* time.time() moves on by d days, over months
MonthsPass(d) ==
    /\ now + d <= MaxMonthDay
    /\ now' = now + d
    /\ UNCHANGED <<files, inodes, proc, lastSet, crashes, active, fetchVars, restVars>>

\* everything but the screener and the prices
ValueFrame == <<cacheVars, current_year, af, calls, requests, rate, paceVars, batchVars, srt,
                storeVars, pk, fc, pg, tw>>

\* the market closes at another price
PriceMove(code, p) ==
    /\ vs.price[code] # p
    /\ vs' = [vs EXCEPT !.price[code] = p]
    /\ UNCHANGED ValueFrame

\* lines 229-299: check_valuation_pass reads the latest valuation data with
\* fetch_valuation_data and compares the final PR with the threshold
check_valuation_pass(price, pr_threshold) ==
    [final_pr |-> price, valuation_pass |-> price <= pr_threshold]

\* lines 341-346: the result kept in memory under the key, if there is one
screening_cache_lookup(cache, key) == cache[key]

\* analyze_single_stock(ts_code, pr_threshold, ...) of one screener, without
\* callbacks: the memory cache, analyze_fundamentals and its checks (up says
\* whether they come through; an exception gives None at 444-449), the
\* valuation check on the data fetched now, the result and its memory entry
AnalyzeStock(code, pr_threshold, up) ==
    /\ LET memo_key == screening_cache_key(code, pr_threshold)
           hit == screening_cache_lookup(vs.screening_cache, memo_key)
           valuation == check_valuation_pass(vs.price[code], pr_threshold)
           result == [ts_code |-> code, valuation_details |-> valuation]
       IN IF hit # None
          THEN vs' = [vs EXCEPT !.last = [op |-> "analyze_single_stock", key |-> memo_key,
                                          result |-> hit, fetched |-> None,
                                          price |-> vs.price[code]]]
          ELSE IF up = "error"
          THEN vs' = [vs EXCEPT !.last = [op |-> "analyze_single_stock", key |-> memo_key,
                                          result |-> None, fetched |-> None,
                                          price |-> vs.price[code]]]
          ELSE vs' = [vs EXCEPT !.screening_cache[memo_key] = Some(result),
                                !.last = [op |-> "analyze_single_stock", key |-> memo_key,
                                          result |-> Some(result),
                                          fetched |-> Some(vs.price[code]),
                                          price |-> vs.price[code]]]
    /\ UNCHANGED ValueFrame

\* --------------------------------------------- the cache key, as a string
RECURSIVE str(_)
\* str(n), f"{n}": the decimal digits of an integer
str(n) ==
    IF n < 0 THEN <<"-">> \o str(0 - n)
    ELSE IF n < 10 THEN <<Digits[n + 1]>>
    ELSE str(n \div 10) \o <<Digits[(n % 10) + 1]>>

\* screening.py 104-108: the key check_cache_exists looks up
check_cache_exists_key(code, start_year, end_year) ==
    LET start_date == str(start_year) \o <<"0", "1", "0", "1">>
        end_date == str(end_year) \o <<"1", "2", "3", "1">>
        required_years == end_year - start_year + 1
    IN code \o <<"_">> \o start_date \o <<"_">> \o end_date \o <<"_">> \o str(required_years)

\* utils.py 894-898: the key analyze_fundamentals reads and writes
analyze_fundamentals_key(code, start_date, end_date, years) ==
    LET start_date_str == IF start_date = None THEN <<"a", "l", "l">> ELSE The(start_date)
        end_date_str == IF end_date = None THEN <<"a", "l", "l">> ELSE The(end_date)
    IN code \o <<"_">> \o start_date_str \o <<"_">> \o end_date_str \o <<"_">> \o str(years)

\* (a slip: years is left at the default of analyze_fundamentals)
analyze_single_stock_key_default_years(code, start_year, end_year) ==
    analyze_fundamentals_key(code, Some(str(start_year) \o <<"0", "1", "0", "1">>),
                             Some(str(end_year) \o <<"1", "2", "3", "1">>), 5)

\* screening.py 338-370: the arguments analyze_single_stock passes on
analyze_single_stock_key(code, start_year, end_year) ==
    LET required_years == end_year - start_year + 1
        start_date == str(start_year) \o <<"0", "1", "0", "1">>
        end_date == str(end_year) \o <<"1", "2", "3", "1">>
    IN analyze_fundamentals_key(code, Some(start_date), Some(end_date), required_years)

\* the stocks and the years tried
MaxSpan == 7

ProbeCodes == {<<"6", "0", "0", "5", "1", "9", ".", "S", "H">>,
               <<"0", "0", "0", "0", "0", "1", ".", "S", "Z">>}

ProbeYears == 2019..(2019 + MaxSpan)

\* the probe of a stock and its analysis, with the same window
ProbeAndAnalyze ==
    /\ pk.op = "ask"
    /\ pk' = [pk EXCEPT !.op = "done",
                        !.probed = Some(check_cache_exists_key(pk.ts_code, pk.start_year,
                                                               pk.end_year)),
                        !.analysed = Some(analyze_single_stock_key(pk.ts_code, pk.start_year,
                                                                   pk.end_year))]
    /\ UNCHANGED <<cacheVars, current_year, af, calls, requests, rate, paceVars, batchVars, srt,
                   storeVars, vs, fc, pg, tw>>

\* ------------------------------------ page_full_market_screening, app.py
\* the stock list has at most MaxList stocks
MaxList == 3

\* app.py 1481-1494: st.session_state as the first run of the page leaves it
PageIdle ==
    [op |-> "page", stock_list |-> None, screening_in_progress |-> FALSE,
     screening_results |-> << >>,
     screening_progress |-> [processed |-> 0, total |-> 0, passed |-> 0, failed |-> 0,
                             current_index |-> 0],
     raised |-> FALSE]

\* lines 1580-1604, the first step of a run of the script: the button that
\* fetches the list (n stocks, or get_a_stock_list raises), and the button
\* that drops the list and reruns
step_one(s, click, n, ok) ==
    IF s.stock_list = None
    THEN IF click = "get" /\ ok THEN [s EXCEPT !.stock_list = Some(n)] ELSE s
    ELSE IF click = "refetch" THEN [s EXCEPT !.stock_list = None] ELSE s

\* lines 1657-1728: one stock is analysed; it passes, fails or raises
process_stock(s, outcome) ==
    LET current_index == s.screening_progress.current_index
        counted == IF outcome = "pass"
                   THEN [s EXCEPT !.screening_results =
                                     Append(@, [ts_code |-> current_index + 1,
                                                final_pr |-> Some(final_pr(current_index + 1))]),
                                  !.screening_progress.passed = @ + 1]
                   ELSE [s EXCEPT !.screening_progress.failed = @ + 1]
    IN [counted EXCEPT !.screening_progress.processed = current_index + 1,
                       !.screening_progress.current_index = current_index + 1]

\* lines 1729-1741: the run is over and the results are sorted by final_pr
finish(s) ==
    [s EXCEPT !.screening_in_progress = FALSE,
              !.screening_results =
                  list_sort(@, [x \in Range(s.screening_results) |-> get_sort_key(x)])]

\* lines 1609-1747, the second step of a run of the script.  st.progress
\* raises StreamlitAPIException for a value above 1.0 and the run of the
\* script ends there; the stop button of 1743-1747 is drawn only by the run
\* that has just ended the screening, so a click on it finds
\* screening_in_progress False and line 1744 is not reached.
step_two(s, click, outcome) ==
    IF s.stock_list = None THEN s
    ELSE LET total_stocks == The(s.stock_list)
             progress == s.screening_progress
         IN IF ~s.screening_in_progress
            THEN IF click = "start"
                 THEN [s EXCEPT !.screening_in_progress = TRUE,
                                !.screening_results = << >>,
                                !.screening_progress =
                                    [processed |-> 0, total |-> total_stocks, passed |-> 0,
                                     failed |-> 0, current_index |-> 0]]
                 ELSE s
            ELSE IF progress.total > 0 /\ progress.processed > progress.total
                 THEN [s EXCEPT !.raised = TRUE]
                 ELSE IF progress.current_index < total_stocks
                      THEN process_stock(s, outcome)
                      ELSE finish(s)

\* one run of the script: after a click on a button the last run drew, or a
\* rerun without a click (st.rerun(), or any other widget)
PageRun(click, n, ok, outcome) ==
    /\ pg.op = "page"
    /\ click = "get" => pg.stock_list = None
    /\ click = "refetch" => pg.stock_list # None
    /\ click = "start" => pg.stock_list # None /\ ~pg.screening_in_progress
    /\ LET first == step_one([pg EXCEPT !.raised = FALSE], click, n, ok)
       IN pg' = IF click = "refetch" THEN first ELSE step_two(first, click, outcome)
    /\ UNCHANGED <<cacheVars, current_year, af, calls, requests, rate, paceVars, batchVars, srt,
                   storeVars, vs, pk, fc, tw>>

\* ------------------------------------- the loop, with and without callbacks
\* the loop of lines 611-725 about to take the futures of every stock
LoopStart(p, d) ==
    [ScrIdle EXCEPT !.pc = "wait", !.progress_callback = p, !.debug_callback = d,
                    !.stock_list = [i \in 1..MaxStocks |-> i], !.pending = Stocks]

\* the future of stock e completes in a run with the callbacks of tw.given and
\* in a run without callbacks, on the same provider data
TwinDone(e) ==
    /\ tw.op = "loop"
    /\ e \in tw.given.pending
    /\ LET r == analyze_single_stock(tw.market[e], tw.given.debug_callback)
           r0 == analyze_single_stock(tw.market[e], tw.plain.debug_callback)
       IN tw' = [tw EXCEPT !.given = Handled(tw.given, e, r),
                           !.plain = Handled(tw.plain, e, r0),
                           !.outcome[e] = [given |-> Some(r.result), plain |-> Some(r0.result)]]
    /\ UNCHANGED <<cacheVars, current_year, af, calls, requests, rate, paceVars, batchVars, srt,
                   storeVars, vs, pk, fc, pg>>

\* --------------------------------------------- check_fundamentals_pass
\* seq[:n] and DataFrame.head(n), for n >= 0
head(seq, n) == SubSeq(seq, 1, Min(n, Len(seq)))

\* screening.py 121-224: the rows of metrics against required_years, the
\* audit opinions and the cash flows of the latest required_years rows
check_fundamentals_pass(audit_records, metrics, required_years) ==
    LET years_found == Len(metrics)
        data_sufficiency_pass == metrics # << >> /\ years_found >= required_years
        recent_audits == head(audit_records, required_years)
        audit_pass == /\ audit_records # << >>
                      /\ \A i \in DOMAIN recent_audits : recent_audits[i].is_standard
        recent_years == head(metrics, required_years)
        cashflow_pass == /\ Len(recent_years) > 0
                         /\ \A i \in DOMAIN recent_years : recent_years[i].cashflow_positive
        cashflow_ge_profit == /\ Len(recent_years) > 0
                              /\ \A i \in DOMAIN recent_years : recent_years[i].cashflow_ge_profit
    IN IF ~data_sufficiency_pass
       THEN [passed |-> FALSE, data_sufficiency_pass |-> FALSE, audit_pass |-> FALSE,
             cashflow_pass |-> FALSE, cashflow_ge_profit |-> FALSE]
       ELSE [passed |-> audit_pass /\ cashflow_pass /\ cashflow_ge_profit,
             data_sufficiency_pass |-> TRUE, audit_pass |-> audit_pass,
             cashflow_pass |-> cashflow_pass, cashflow_ge_profit |-> cashflow_ge_profit]

\* the years of the windows tried
MaxCheckSpan == 3

CheckYears == 2021..(2021 + MaxCheckSpan)

\* the years of a set, latest first
descending(S) ==
    CHOOSE seq \in [1..Cardinality(S) -> S] :
        \A i, j \in 1..Cardinality(S) : i < j => seq[i] > seq[j]

\* the metrics of analyze_fundamentals for the years covered, one row a year,
\* latest first; the cash flow of the years in bad is below zero
metrics_of(covered, bad) ==
    [i \in 1..Cardinality(covered) |->
        [end_date |-> end_date_of(descending(covered)[i]),
         cashflow_positive |-> descending(covered)[i] \notin bad,
         cashflow_ge_profit |-> descending(covered)[i] \notin bad]]

\* the audit records of the years covered, latest first
audits_of(covered, qualified) ==
    [i \in 1..Cardinality(covered) |->
        [end_date |-> end_date_of(descending(covered)[i]),
         is_standard |-> descending(covered)[i] \notin qualified]]

\* screening.py 338-339 and 382-384: analyze_single_stock derives required_years
\* from the window and checks the result of analyze_fundamentals
CheckFundamentals ==
    /\ fc.op = "ask"
    /\ LET required_years == fc.end_year - fc.start_year + 1
       IN fc' = [fc EXCEPT !.op = "done",
                           !.required_years = required_years,
                           !.result = Some(check_fundamentals_pass(fc.audit_records, fc.metrics,
                                                                   required_years))]
    /\ UNCHANGED <<cacheVars, current_year, af, calls, requests, rate, paceVars, batchVars, srt,
                   storeVars, vs, pk, pg, tw>>

\* ------------------------------------------------------- specifications
\* one thread, with crashes
NoFetch ==
    af = AfIdle /\ calls = << >> /\ requests = << >> /\ current_year = 2025 /\ RestIdle

InitCrash == CacheInit /\ active = {1} /\ NoFetch

NextCrash ==
    \/ \E k \in Keys, v \in Values : SetBegin(1, k, v)
    \/ SetOpen(1)
    \/ SetWrite(1)
    \/ SetReplace(1)
    \/ \E k \in Keys : GetExists(1, k)
    \/ GetLoad(1)
    \/ GetRemove(1)
    \/ Tick
    \/ Crash

SpecCrash == InitCrash /\ [][NextCrash]_vars

\* two threads of one process, no crash
InitConc == CacheInit /\ active = Workers /\ NoFetch

NextConc ==
    \/ \E w \in Workers, k \in Keys, v \in Values : SetBegin(w, k, v)
    \/ \E w \in Workers : SetOpen(w)
    \/ \E w \in Workers : SetWrite(w)
    \/ \E w \in Workers : SetReplace(w)
    \/ \E w \in Workers : SetExcept(w)
    \/ \E w \in Workers, k \in Keys : GetExists(w, k)
    \/ \E w \in Workers : GetLoad(w)
    \/ \E w \in Workers : GetRemove(w)
    \/ Tick

SpecConc == InitConc /\ [][NextConc]_vars

\* get_api_delay on its own, over its arguments
InitRate ==
    /\ CacheInit
    /\ active = {}
    /\ FetchInit
    /\ requests = << >>
    /\ current_year = 2025
    /\ rate = RateIdle
    /\ PaceIdle
    /\ BatchIdle
    /\ srt = SortIdle
    /\ StoreIdle
    /\ ExtraIdle

NextRate ==
    \/ \E api_name \in ApiNames, user_points \in UserPoints, max_workers \in 0..MaxWorkers :
          RateCall(api_name, user_points, max_workers)
    \/ RateReturn

SpecRate == InitRate /\ [][NextRate]_vars

\* W threads, each working through its entities with the hint W
InitPace ==
    /\ CacheInit
    /\ active = {}
    /\ FetchInit
    /\ requests = << >>
    /\ current_year = 2025
    /\ rate = RateIdle
    /\ BatchIdle
    /\ srt = SortIdle
    /\ StoreIdle
    /\ ExtraIdle
    /\ clock = 0
    /\ sent = {}
    /\ hint \in [max_workers : PaceWorkers, user_points : {Some(0), Some(300), None},
                  api_delay : {0, 100}]
    /\ pace = [w \in PaceWorkers |->
                 IF w <= hint.max_workers
                 THEN [pc |-> "company", wake |-> 0, left |-> MaxEntities]
                 ELSE [pc |-> "done", wake |-> 0, left |-> 0]]

NextPace ==
    \/ \E w \in PaceWorkers, hit \in BOOLEAN : PaceCompany(w, hit)
    \/ \E w \in PaceWorkers : PaceStatement(w)
    \/ \E w \in PaceWorkers : PaceCashflow(w)
    \/ PaceAdvance

SpecPace == InitPace /\ [][NextPace]_vars

\* screen_all_stocks as the class stands
InitBatch ==
    /\ CacheInit
    /\ active = {}
    /\ FetchInit
    /\ requests = << >>
    /\ current_year = ScreenWindow.current_year
    /\ rate = RateIdle
    /\ PaceIdle
    /\ srt = SortIdle
    /\ StoreIdle
    /\ ExtraIdle
    /\ ScreenInit

NextBatch ==
    \/ \E n \in Stocks, ok \in BOOLEAN : GetStockList(n, ok)
    \/ Scan
    \/ ScanDone
    \/ ProcessGroup

SpecBatch == InitBatch /\ [][NextBatch]_vars

\* screen_all_stocks with a _process_stock_batch that does what section 4.4
\* of the specification says of a group's run
NextHelper ==
    \/ \E n \in Stocks, ok \in BOOLEAN : GetStockList(n, ok)
    \/ Scan
    \/ ScanDone
    \/ BatchBegin
    \/ \E e \in Stocks : BatchStart(e)
    \/ \E e \in Stocks : BatchStep(e)
    \/ BatchReturn
    \/ Submit
    \/ \E e \in Stocks : FutureStart(e)
    \/ \E e \in Stocks : FutureDone(e)
    \/ Return

SpecHelper == InitBatch /\ [][NextHelper]_vars

\* the same run, with a caller that may ask for a stop
NextStop ==
    \/ NextHelper
    \/ RequestStop

SpecStop == InitBatch /\ [][NextStop]_vars

\* the final sort on lists of stocks in any order
Lists == UNION {[1..n -> Ranked] : n \in 1..MaxStocks}

NextSort ==
    \/ \E seq \in Lists : SortCall(seq)
    \/ SortReturn

InitSort == CacheInit /\ active = {} /\ NoFetch

SpecSort == InitSort /\ [][NextSort]_vars

\* the derivation of file names on its own, over the keys
InitKeys ==
    /\ CacheInit
    /\ active = {}
    /\ FetchInit
    /\ requests = << >>
    /\ current_year = 2025
    /\ rate = RateIdle
    /\ PaceIdle
    /\ BatchIdle
    /\ srt = SortIdle
    /\ disk = NoFiles
    /\ wrote = None
    /\ ExtraIdle
    /\ sop \in {[op |-> "ask", key |-> key] : key \in ShortKeys \cup LongKeys}

NextKeys == PathOf

SpecKeys == InitKeys /\ [][NextKeys]_vars

\* the store and fetch_company_info on one thread, one call at a time
InitStore == CacheInit /\ active = {} /\ NoFetch

NextStore ==
    \/ \E key \in StoreKeys : KGet(key)
    \/ \E key \in StoreKeys, data \in StorePayloads, io \in {"ok", "convert", "dump"} :
          KSet(key, data, io)
    \/ \E key \in StoreKeys : KDelete(key)
    \/ ClearExpired
    \/ \E path \in DOMAIN disk : Corrupt(path)
    \/ \E d \in Waits : Wait(d)
    \/ \E outcome \in {"data", "empty", "error"} : FetchCompanyInfo(outcome)

SpecStore == InitStore /\ [][NextStore]_vars

\* one screener asked about stocks again and again while prices move
InitValue == CacheInit /\ active = {} /\ NoFetch

NextValue ==
    \/ \E code \in Stocks, p \in 1..MaxPrice : PriceMove(code, p)
    \/ \E code \in Stocks, t \in Thresholds, up \in {"ok", "error"} : AnalyzeStock(code, t, up)

SpecValue == InitValue /\ [][NextValue]_vars

\* the two derivations of the cache key, over stocks and windows
InitProbe ==
    /\ CacheInit
    /\ active = {}
    /\ FetchInit
    /\ requests = << >>
    /\ current_year = 2025
    /\ rate = RateIdle
    /\ PaceIdle
    /\ BatchIdle
    /\ srt = SortIdle
    /\ StoreIdle
    /\ vs = ValueIdle
    /\ fc = [op |-> "idle"]
    /\ pg = [op |-> "idle"]
    /\ tw = [op |-> "idle"]
    /\ pk \in {[op |-> "ask", ts_code |-> code, start_year |-> sy, end_year |-> ey,
                 probed |-> None, analysed |-> None] :
                   code \in ProbeCodes, sy \in ProbeYears, ey \in ProbeYears}

NextProbe == ProbeAndAnalyze

SpecProbe == InitProbe /\ [][NextProbe]_vars

\* fetch_company_info over months
InitCompany == CacheInit /\ active = {} /\ NoFetch

NextCompany ==
    \/ \E outcome \in {"data", "empty", "error"} : FetchCompanyInfo(outcome)
    \/ \E d \in {10, 30} : MonthsPass(d)

SpecCompany == InitCompany /\ [][NextCompany]_vars

\* check_fundamentals_pass over windows and record sets
InitCheck ==
    /\ CacheInit
    /\ active = {}
    /\ FetchInit
    /\ requests = << >>
    /\ current_year = 2025
    /\ rate = RateIdle
    /\ PaceIdle
    /\ BatchIdle
    /\ srt = SortIdle
    /\ StoreIdle
    /\ vs = ValueIdle
    /\ pk = [op |-> "idle"]
    /\ pg = [op |-> "idle"]
    /\ tw = [op |-> "idle"]
    /\ \E sy \in CheckYears, ey \in CheckYears :
         /\ sy <= ey
         /\ \E covered \in SUBSET (sy..ey) :
              \E bad \in {{}} \cup {{y} : y \in covered} :
                \E qualified \in {{}} \cup {{y} : y \in covered} :
                  fc = [op |-> "ask", start_year |-> sy, end_year |-> ey, covered |-> covered,
                        metrics |-> metrics_of(covered, bad),
                        audit_records |-> audits_of(covered, qualified),
                        required_years |-> 0, result |-> None]

NextCheck == CheckFundamentals

SpecCheck == InitCheck /\ [][NextCheck]_vars

\* the loop of screen_all_stocks twice over the same stocks and provider data
InitTwin ==
    /\ CacheInit
    /\ active = {}
    /\ FetchInit
    /\ requests = << >>
    /\ current_year = ScreenWindow.current_year
    /\ rate = RateIdle
    /\ PaceIdle
    /\ BatchIdle
    /\ srt = SortIdle
    /\ StoreIdle
    /\ vs = ValueIdle
    /\ pk = [op |-> "idle"]
    /\ fc = [op |-> "idle"]
    /\ pg = [op |-> "idle"]
    /\ tw \in {[op |-> "loop", market |-> m, given |-> LoopStart(p, d),
                 plain |-> LoopStart(FALSE, FALSE),
                 outcome |-> [e \in Stocks |-> [given |-> None, plain |-> None]]] :
                   m \in [Stocks -> Markets], p \in BOOLEAN, d \in BOOLEAN}

NextTwin == \E e \in Stocks : TwinDone(e)

SpecTwin == InitTwin /\ [][NextTwin]_vars

\* the page over its runs
InitPage ==
    /\ CacheInit
    /\ active = {}
    /\ FetchInit
    /\ requests = << >>
    /\ current_year = 2025
    /\ rate = RateIdle
    /\ PaceIdle
    /\ BatchIdle
    /\ srt = SortIdle
    /\ StoreIdle
    /\ vs = ValueIdle
    /\ pk = [op |-> "idle"]
    /\ fc = [op |-> "idle"]
    /\ tw = [op |-> "idle"]
    /\ pg = PageIdle

NextPage ==
    \E click \in {"none", "get", "refetch", "start"}, n \in 1..MaxList, ok \in BOOLEAN,
       outcome \in {"pass", "fail", "raise"} : PageRun(click, n, ok, outcome)

SpecPage == InitPage /\ [][NextPage]_vars

\* ------------------------------------------------------------ the claims
LastGets == {The(proc[w].ret) : w \in {x \in Workers : proc[x].ret # None}}

Gets == {r \in LastGets : r.op = "get"}

\* what a get at time t returns for a stored document o (or for none)
ViewAt(o, t) ==
    IF o = None THEN None
    ELSE IF t > The(o).timestamp + expire_seconds THEN None
    ELSE Some(The(o).data)

\* C1: whatever step of set(k, new) the process is killed at, a later get(k)
\* returns what it would return for the document stored before that set (absent
\* if there was none) or the complete new value, never a partial payload.
C1_CrashAtomicSet ==
    \A r \in Gets :
        r.val \in {ViewAt(lastSet[r.key].old, r.t), ViewAt(lastSet[r.key].new, r.t)}

\* a get that follows a crash in the middle of the temp-file write and returns
\* the old value
C1_Witness ==
    \E r \in Gets :
        /\ crashes > 0
        /\ temp_path(r.key) \in DOMAIN files
        /\ Len(inodes[files[temp_path(r.key)]]) \in 1..(NumChunks - 1)
        /\ r.val # None
        /\ lastSet[r.key].old # None
        /\ r.val = Some(The(lastSet[r.key].old).data)
        /\ The(lastSet[r.key].new).data # The(r.val)

\* C2: with two workers setting the same key, the cache file always holds one
\* writer's complete document: nothing a get could read is partial or mixed.
C2_ConcurrentSetComplete ==
    \A k \in Keys : get_cache_path(k) \in DOMAIN files => Stored(k) # None

\* C3: a get at any time up to storedAt + TTL returns the stored value; a get
\* after that returns absent and the entry is gone from the store.
C3_ExpiryAtReadTime ==
    \A r \in Gets :
        r.seen # None =>
            IF r.t <= The(r.seen).timestamp + expire_seconds
            THEN r.val = Some(The(r.seen).data)
            ELSE r.val = None /\ get_cache_path(r.key) \notin DOMAIN files

\* a get that found the entry expired and removed it
C3_Witness ==
    \E r \in Gets :
        /\ r.seen # None
        /\ r.t > The(r.seen).timestamp + expire_seconds
        /\ r.val = None
        /\ get_cache_path(r.key) \notin DOMAIN files

\* C4: a get that finds a document that does not decode returns absent and
\* deletes the file.
C4_CorruptEntryDeleted ==
    \A r \in Gets :
        r.why = "corrupt" => r.val = None /\ get_cache_path(r.key) \notin DOMAIN files

\* ------------------------------------------ the claims on analyze_fundamentals
\* the years of the requested window, those the cache entry held, those it lacked
WindowYears == af.start_year..af.end_year

CachedYears == IF af.cached = None THEN {} ELSE YearsIn(The(af.cached).metrics)

Missing == WindowYears \ CachedYears

\* the missing years older than the previous calendar year
OldMissing == {y \in Missing : y < current_year - 1}

Contiguous(S) == \A y \in WindowYears : (\E a, b \in S : a <= y /\ y <= b) => y \in S

\* the audit and statement reads the running call has issued
Reads == {calls[i] : i \in {j \in DOMAIN calls : calls[j].api # "stock_company"}}

Covers(c, y) == c.start_date <= y * 10000 + 1231 /\ y * 10000 + 1231 <= c.end_date

Carries(c, from, to) == c.start_date = from * 10000 + 101 /\ c.end_date = to * 10000 + 1231

PartialHit == af.cached # None /\ Missing # {} /\ af.incremental_update

\* C5: a cache entry under the query key that covers every year of the window
\* is returned as it is, and no external read is issued.
C5_FullHitNoReads ==
    (af.cached # None /\ Missing = {}) =>
        /\ af.pc = "done"
        /\ calls = << >>
        /\ af.result = af.cached

\* a call served from an entry that covers the window
C5_Witness ==
    /\ af.cached # None
    /\ Missing = {}
    /\ af.pc = "done"
    /\ Len(The(af.result).metrics) = Cardinality(WindowYears)

StoredPeriods(w) ==
    LET o == Stored(cache_key(ts_code, start_date_of(w[1]), end_date_of(w[2]),
                              w[2] - w[1] + 1))
    IN IF o = None THEN {} ELSE KeysOf(The(o).data.metrics_dict)

CoversPeriod(c, d) == c.start_date <= d /\ d <= c.end_date

\* C7, as stated: with the periods P of an earlier fetch for [s, e] in the
\* cache, a fetch for the wider window [s', e] issues no read whose date window
\* covers a period of P.
C7_GrowingWindowNoRefetch ==
    (af.start_year = Window[1] /\ af.end_year = Window[2]) =>
        \A c \in Reads : \A d \in StoredPeriods(NarrowWindow) : ~CoversPeriod(c, d)

\* C7, amended: with the periods P of an earlier fetch for [s, e] in the cache,
\* a later fetch for the same window [s, e] that finds the years missing from
\* P to be one contiguous run issues no read whose date window covers a period
\* of P; a fetch for a wider window [s', e] looks under another key and, with
\* no entry there, issues every read for the whole of [s', e].
C7_SameWindowNoRefetch ==
    /\ (af.cached # None /\ Contiguous(Missing)) =>
            \A c \in Reads : \A d \in KeysOf(The(af.cached).metrics) : ~CoversPeriod(c, d)
    /\ (af.cached = None /\ af.pc # "idle") =>
            \A c \in Reads : Carries(c, af.start_year, af.end_year)

\* the later fetch for the same window has read the oldest year only, next to
\* the periods cached before
C7_Witness ==
    /\ requests = << >>
    /\ af.pc = "done"
    /\ af.cached # None
    /\ Missing # {}
    /\ Contiguous(Missing)
    /\ Cardinality(Reads) = 4

\* the later fetch for the wider window has read the whole window with the
\* narrower window's periods in the cache
C7_WitnessWider ==
    /\ af.pc = "done"
    /\ af.start_year = Window[1]
    /\ af.cached = None
    /\ StoredPeriods(NarrowWindow) # {}
    /\ Cardinality(Reads) = 4

\* the result of a completed incremental fetch
Incremental == af.pc = "done" /\ af.incremental_update /\ af.cached # None

\* C8: after an incremental fetch the periods returned, and those written to
\* the cache, are those of the cache before together with those fetched, for
\* metrics and audit records; with every missing year fetched the window is
\* covered.
C8_MergedIsUnion ==
    Incremental =>
        LET old == The(af.cached)
            new == The(af.fetched)
            res == The(af.result)
            ent == Stored(af.key)
        IN /\ KeysOf(res.metrics) = KeysOf(old.metrics) \cup KeysOf(new.metrics)
           /\ KeysOf(res.audit_records)
                 = KeysOf(old.audit_records) \cup KeysOf(new.audit_records)
           /\ ent # None
           /\ KeysOf(The(ent).data.metrics_dict) = KeysOf(res.metrics)
           /\ KeysOf(The(ent).data.audit_records) = KeysOf(res.audit_records)
           /\ Missing \subseteq YearsIn(new.metrics) => WindowYears \subseteq YearsIn(res.metrics)

\* an incremental fetch that got every missing year and kept cached years
C8_Witness ==
    /\ Incremental
    /\ Missing \subseteq YearsIn(The(af.fetched).metrics)
    /\ KeysOf(The(af.cached).metrics) \ KeysOf(The(af.fetched).metrics) # {}
    /\ WindowYears = YearsIn(The(af.result).metrics)

\* the rows of df with a period that both the cache and the fetch hold
Colliding(df, old, new) ==
    {df[i] : i \in {j \in DOMAIN df : df[j].end_date \in KeysOf(old) \cap KeysOf(new)}}

Payloads ==
    LET o == Stored(cache_key(ts_code, start_date_of(Window[1]), end_date_of(Window[2]),
                              Window[2] - Window[1] + 1))
    IN IF o = None THEN {} ELSE {The(o).data.metrics_dict}

\* C10: every financial payload in the cache has one record per period, only
\* year-end records, and these in descending order of period.
C10_PayloadCanonical ==
    \A df \in Payloads :
        /\ Cardinality(KeysOf(df)) = Len(df)
        /\ \A i \in DOMAIN df : is_annual(df[i].end_date)
        /\ \A i, j \in DOMAIN df : i < j => df[i].end_date > df[j].end_date

\* a payload of all three years, written by an incremental fetch
C10_Witness ==
    /\ Incremental
    /\ \E df \in Payloads : Len(df) = 3

\* C11, as stated: a cache entry that lacks only the most recent year of the
\* window is returned with no external read, whatever the window.
C11_LatestMissingServed ==
    (af.cached # None /\ Missing = {af.end_year}) =>
        /\ af.pc = "done"
        /\ calls = << >>
        /\ af.result = af.cached

\* C11, amended: a cache entry that lacks only the most recent year of the
\* window is returned with no external read when that year is the current or
\* the previous calendar year; when it is older, the year is read.
C11_RecentMissingServed ==
    (af.cached # None /\ Missing = {af.end_year}) =>
        IF af.end_year >= current_year - 1
        THEN af.pc = "done" /\ calls = << >> /\ af.result = af.cached
        ELSE af.incremental_update /\ \A c \in Reads : Carries(c, af.end_year, af.end_year)

\* the entry lacks the previous calendar year only and is served
C11_Witness ==
    /\ af.cached # None
    /\ Missing = {af.end_year}
    /\ af.end_year = current_year - 1
    /\ af.pc = "done"
    /\ calls = << >>

\* ------------------------------------------------ the claims on get_api_delay
Financial == {"fina_audit", "balancesheet", "income", "cashflow"}

\* C12: for the company class and the financial classes, every tier and every
\* W >= 1, get_api_delay returns 60 * W / G seconds, G the limit of the class
\* and tier.
C12_DelayIsFormula ==
    (rate.ret # None /\ rate.max_workers >= 1
        /\ rate.api_name \in Financial \cup {"stock_company"}) =>
        The(rate.ret) * ceiling(rate.api_name, rate.user_points) = 60000 * rate.max_workers

\* C13: for stock_company, what get_api_delay returned is what it returns for
\* every other tier, none given included, at the same worker count.
C13_CompanyDelayTierFree ==
    (rate.ret # None /\ rate.api_name = "stock_company") =>
        \A user_points \in UserPoints :
            get_api_delay("stock_company", user_points, rate.max_workers) = The(rate.ret)

\* stock_company asked for by a free-tier account with ten workers
C13_Witness ==
    /\ rate.ret # None
    /\ rate.api_name = "stock_company"
    /\ rate.user_points = Some(0)
    /\ rate.max_workers = MaxWorkers

\* the reads of one endpoint class that went out within the last minute
SentOf(apis) == {c \in sent : c.api \in apis}

\* C14: with as many threads as the hint says, every 60-second window holds
\* at most G reads of each endpoint class (G = 10 for company information,
\* the tier's ceiling for the financial statements)
C14_WithinCeiling ==
    hint.max_workers >= 1 =>
        /\ Cardinality(SentOf({"stock_company"})) <= ceiling("stock_company", hint.user_points)
        /\ Cardinality(SentOf(Financial)) <= ceiling("fina_audit", hint.user_points)

\* C15: a run of screen_all_stocks over a non-empty list never ends by
\* raising, whatever fails for single stocks
C15_BatchNeverRaises ==
    scr.stock_list # << >> => scr.pc # "raised"

\* the stocks of the run
Listed == Range(scr.stock_list)

\* how often stock e stands in the passed list
Occurrences(e) == Cardinality({i \in DOMAIN scr.passed_stocks : scr.passed_stocks[i] = e})

\* C16: when the run has returned, passed plus failed is the number of
\* stocks, no stock stands twice in the passed list, and no stock was counted
\* both as passed and as failed
C16_CountedOnce ==
    scr.pc = "returned" =>
        /\ Len(scr.passed_stocks) + scr.failed_count = Len(scr.stock_list)
        /\ \A e \in Listed : Occurrences(e) <= 1
        /\ \A e \in Listed : ~(scr.counted[e].passed > 0 /\ scr.counted[e].failed > 0)

\* the probe has looked at every stock of the list
Probed == scr.pc \in {"CACHED", "UNCACHED", "raised"} /\ scr.stock_list # << >>

\* C17: the probe puts every stock in exactly one of the two groups, a stock
\* is in the ready group exactly if its cache entry serves the whole window,
\* and the probe issues no external read
C17_ProbePartition ==
    Probed =>
        /\ Range(scr.cached_stocks) \cap Range(scr.uncached_stocks) = {}
        /\ Range(scr.cached_stocks) \cup Range(scr.uncached_stocks) = Listed
        /\ Len(scr.cached_stocks) + Len(scr.uncached_stocks) = Len(scr.stock_list)
        /\ \A e \in Listed : e \in Range(scr.cached_stocks) <=> FastPath(market[e].entry)
        /\ \A e \in Listed : market[e].ext = 0

\* C18: when the run has returned, every stock whose entry served the window
\* at the start was processed without an external read, and every other
\* stock with at least one
C18_CachedWithoutCalls ==
    scr.pc = "returned" =>
        \A e \in Listed : (e \in scr.covered <=> market[e].ext = 0)

\* what the run makes of stock e, from the stock's own entry, provider and
\* data and the two callbacks alone: how often it is counted as passed and
\* as failed in the two passes over it
OwnTally(e) ==
    LET m == market[e]
        upstream_fails == ~FastPath(m.entry) /\ m.up = "error"
        passes == ~scr.debug_callback /\ ~upstream_fails /\ m.verdict = "pass"
    IN IF passes
       THEN [passed |-> 2, failed |-> IF scr.progress_callback THEN 1 ELSE 0]
       ELSE [passed |-> 0, failed |-> 2]

Taken == Listed \ scr.pending

\* C20: with a progress callback, the loop has reported once for each stock
\* it has taken, the completed counts of the reports are 1, 2, 3, ... and end
\* at the number of stocks, and passed plus failed of a report is its
\* completed count
C20_ProgressCounts ==
    (scr.progress_callback /\ scr.pc \in {"wait", "returned"}) =>
        /\ Len(scr.reports) = Cardinality(Taken)
        /\ \A i \in DOMAIN scr.reports :
              /\ scr.reports[i].completed = i
              /\ scr.reports[i].passed + scr.reports[i].failed = scr.reports[i].completed
        /\ scr.pc = "returned" => scr.completed = Len(scr.stock_list)

\* C21: once a stop is requested, no further stock is begun (the stocks in
\* flight may end)
C21_StopHonoured ==
    [][scr.stop => scr'.running \subseteq scr.running]_vars

\* C22: while the ready group is processed at most min(50, its size) of its
\* stocks run at once, while the needs-fetch group is processed at most
\* max_workers of its stocks; a ready stock always runs with an extra delay
\* of zero, a needs-fetch stock with the caller's api_delay
C22_GroupPolicies ==
    /\ Cardinality(scr.running \cap Range(scr.cached_stocks))
          <= Min(max_cache_workers, Len(scr.cached_stocks))
    /\ Cardinality(scr.running \cap Range(scr.uncached_stocks)) <= scr.max_workers
    /\ \A r \in scr.ran :
          /\ r.ts_code \in Range(scr.cached_stocks) => r.api_delay = 0
          /\ r.ts_code \in Range(scr.uncached_stocks) => r.api_delay = scr.api_delay

\* C23: the list the final sort leaves holds the stocks it was given, ordered
\* by final PR non-decreasing, the stocks without a final PR after all those
\* that have one, whatever order they were given in
C23_SortedByPr ==
    srt.sorted # None =>
        LET out == The(srt.sorted)
        IN /\ Len(out) = Len(srt.passed_stocks)
           /\ \A x \in Ranked :
                 Cardinality({i \in DOMAIN out : out[i] = x})
                     = Cardinality({i \in DOMAIN srt.passed_stocks : srt.passed_stocks[i] = x})
           /\ \A i, j \in DOMAIN out :
                 i < j =>
                     /\ out[i].final_pr = None => out[j].final_pr = None
                     /\ (out[i].final_pr # None /\ out[j].final_pr # None)
                            => The(out[i].final_pr) <= The(out[j].final_pr)

C23_Witness ==
    /\ srt.sorted # None
    /\ Len(srt.passed_stocks) >= 2
    /\ srt.passed_stocks[1].final_pr = None
    /\ srt.passed_stocks[2].final_pr # None
    /\ The(srt.sorted) # srt.passed_stocks

\* the place of an external read in the order of lines 1068-1127
ReadOrder(api) ==
    CASE api = "stock_company" -> 1
      [] api = "fina_audit" -> 2
      [] api = "balancesheet" -> 3
      [] api = "income" -> 4
      [] OTHER -> 5

InOrderOnce == \A i, j \in DOMAIN calls : i < j => ReadOrder(calls[i].api) < ReadOrder(calls[j].api)

\* C24 as stated: the reads of one fetch are issued in the order company info,
\* audit records, balance sheet, income statement, cash-flow statement, each
\* at most once, and a read that fails is the last one issued
C24_AnyFailureEndsReads ==
    /\ InOrderOnce
    /\ \A i \in DOMAIN calls : ~calls[i].ok => i = Len(calls)

\* C24: the reads of one fetch are issued in that order, each at most once;
\* a failed read of audit records or of a statement is the last one issued,
\* while a failed read of the company info is swallowed and the audit read
\* follows it
C24_StatementFailureEndsReads ==
    /\ InOrderOnce
    /\ \A i \in DOMAIN calls :
          (~calls[i].ok /\ calls[i].api # "stock_company") => i = Len(calls) /\ af.pc = "failed"
    /\ \A i \in DOMAIN calls :
          (~calls[i].ok /\ calls[i].api = "stock_company" /\ af.pc # "audit")
              => i < Len(calls) /\ calls[i + 1].api = "fina_audit"

C24_Witness ==
    /\ Len(calls) = 4
    /\ ~calls[1].ok
    /\ calls[1].api = "stock_company"
    /\ ~calls[4].ok
    /\ af.pc = "failed"

\* the name of the file inside the cache directory, without its suffix
Stem(path) == SubSeq(path, Len(cache_dir) + 2, Len(path) - 5)

JsonSuffix(path) == SubSeq(path, Len(path) - 4, Len(path)) = <<".", "j", "s", "o", "n">>

\* C26: for every key that is not refused, of any length, the derived file
\* name consists of characters of the safe alphabet followed by .json, is not
\* a reserved device name, and the path is a direct child of the cache
\* directory
C26_NameIsSafe ==
    (sop.op = "get_cache_file_path" /\ sop.raised = "") =>
        /\ JsonSuffix(sop.ret)
        /\ Range(Stem(sop.ret)) \subseteq SafeChars
        /\ upper(Stem(sop.ret)) \notin reserved_names
        /\ dirname(sop.ret) = cache_dir

\* a key without a character, or with spaces only
Blank(key) == \A i \in DOMAIN key : key[i] = " "

\* C25: get, set and delete called with an empty or whitespace-only key raise
\* an error to the caller, return nothing, and leave every stored entry as it
\* was
C25_BlankKeyRaises ==
    (sop.op \in {"get", "set", "delete"} /\ Blank(sop.key)) =>
        /\ sop.raised = "ValueError"
        /\ "ret" \notin DOMAIN sop
        /\ disk = sop.before

C25_Witness ==
    /\ sop.op = "set"
    /\ sop.key = <<" ">>
    /\ sop.raised = "ValueError"
    /\ disk # NoFiles

\* what get(key) would return now, the directory left as it is
Served(d, key) == store_get(d, key, now).ret

\* C27: set or delete on one key never changes what get returns for a
\* different key (two different keys of at most 200 characters never resolve
\* to the same cache file)
C27_OtherKeysUntouched ==
    (sop.op \in {"set", "delete"} /\ sop.raised = "") =>
        \A other \in StoreKeys :
            (other # sop.key /\ ~Blank(other) /\ Len(other) <= max_key_length)
                => Served(disk, other) = Served(sop.before, other)

\* C28: when set is called with a key and a payload and then again with the
\* same key and the same payload, both calls writing their file, get returns
\* after the second call what it returned after the first
C28_SetTwiceSameGet ==
    (/\ sop.op = "set"
     /\ sop.raised = ""
     /\ sop.ret
     /\ sop.prev # None
     /\ The(sop.prev).ret
     /\ The(sop.prev).key = sop.key
     /\ The(sop.prev).data = sop.data)
        => sop.served = The(sop.prev).served

C28_Witness ==
    /\ sop.op = "set"
    /\ sop.raised = ""
    /\ sop.prev # None
    /\ The(sop.prev).ret
    /\ sop.ret
    /\ The(sop.prev).key = sop.key
    /\ The(sop.prev).data = sop.data
    /\ sop.served = Some(sop.data)
    /\ sop.before[cache_path_of(sop.key)].timestamp < disk[cache_path_of(sop.key)].timestamp

\* C29: clear_expired removes every entry that is older than the store's TTL
\* or cannot be decoded, leaves every unexpired decodable entry and its value
\* as they were, and returns the number of entries it removed
C29_SweepExact ==
    sop.op = "clear_expired" =>
        /\ DOMAIN disk \subseteq DOMAIN sop.before
        /\ \A p \in DOMAIN sop.before :
              IF sop.before[p].json /\ sop.at - sop.before[p].timestamp <= expire_seconds
              THEN p \in DOMAIN disk /\ disk[p] = sop.before[p]
              ELSE p \notin DOMAIN disk
        /\ sop.ret = Cardinality(DOMAIN sop.before) - Cardinality(DOMAIN disk)

C29_Witness ==
    /\ sop.op = "clear_expired"
    /\ sop.ret = 1
    /\ Cardinality(DOMAIN sop.before) = 2
    /\ \E p \in DOMAIN sop.before :
          sop.before[p].json /\ sop.at - sop.before[p].timestamp > expire_seconds
    /\ \E p \in DOMAIN disk : disk[p].json

\* C30: a company-info entry that fetch_company_info wrote ten days ago is
\* served by fetch_company_info without an external call, whatever get, set
\* and delete of other keys and clear_expired ran in between
C30_CompanyInfoSurvives ==
    (/\ sop.op = "fetch_company_info"
     /\ wrote # None
     /\ sop.at - The(wrote) = 10)
        => /\ sop.hit
           /\ ~sop.ext

\* the periods of a frame, in its order
Periods(df) == [i \in DOMAIN df |-> df[i].end_date]

C32_FailureLeavesEntry ==
    /\ (\E i \in DOMAIN calls : ~calls[i].ok) => af.pc # "done"
    /\ (af.pc = "failed" /\ af.entry # None) => Stored(af.key) = af.entry

\* C32: when the read of audit records or of a statement fails or returns
\* nothing usable, analyze_fundamentals fails instead of returning a record
\* set and has written nothing: an entry the fetch started from is left as it
\* was, and there is no entry where get found none or the fetch deleted an
\* empty one; a failed read of the company info does not fail the fetch
C32_StatementFailureLeavesEntry ==
    /\ (\E i \in DOMAIN calls : ~calls[i].ok /\ calls[i].api # "stock_company")
           => af.pc = "failed" /\ af.result = None
    /\ af.pc = "failed" =>
           Stored(af.key) = IF af.cached # None THEN af.entry ELSE None

C32_Witness ==
    /\ af.pc = "failed"
    /\ af.cached # None
    /\ af.entry # None
    /\ Stored(af.key) = af.entry
    /\ Len(calls) >= 2
    /\ ~calls[Len(calls)].ok

\* C33: every call of analyze_single_stock that returns a result has fetched
\* valuation data during that call and computed the valuation outcome of the
\* result from it, also when the screener analysed the same stock with the
\* same parameters before
C33_ValuationIsFresh ==
    (vs.last.op = "analyze_single_stock" /\ vs.last.result # None) =>
        /\ vs.last.fetched # None
        /\ The(vs.last.result).valuation_details.final_pr = The(vs.last.fetched)

\* C34: for every stock and window, the cache key check_cache_exists probes is
\* the key analyze_fundamentals reads and writes when analyze_single_stock
\* processes the stock with the same window
C34_SameKey ==
    pk.op = "done" => pk.probed = pk.analysed

C34_Witness ==
    /\ pk.op = "done"
    /\ pk.start_year < pk.end_year
    /\ pk.probed # None
    /\ Len(The(pk.analysed)) = Len(pk.ts_code) + 20

\* the entry of the company information a cache directory holds, if it can be read
CompanyEntry(d) ==
    IF cache_path_of(CompanyKey) \in DOMAIN d THEN decode(d[cache_path_of(CompanyKey)]) ELSE None

\* C35: when the call of the provider fails and the cache held an entry older
\* than 30 days when fetch_company_info began, the function returns the data of
\* that entry, flagged as a cache hit
C35_ExpiredEntryServed ==
    (/\ sop.op = "fetch_company_info"
     /\ sop.api = "error"
     /\ CompanyEntry(sop.before) # None
     /\ sop.at - The(CompanyEntry(sop.before)).timestamp >= company_expire_seconds)
        => /\ sop.ret = Some(The(CompanyEntry(sop.before)).data)
           /\ sop.hit

\* C36: an entry written by a successful set is never removed by a get of the
\* same key running concurrently: the os.remove of a get that found the old
\* entry expired leaves an unexpired entry that a set has published since
C36_GetKeepsNewEntry ==
    [][\A w \in Workers : \A u \in Workers \ {w} : \A k \in Keys :
          (/\ proc[w].pc = "get_remove"
           /\ proc[w].key = k
           /\ proc'[w].pc = "idle"
           /\ proc[u].pc = "idle"
           /\ proc[u].ret = Some(SetResult(k, TRUE))
           /\ Stored(k) # None
           /\ Stored(k) = lastSet[k].new
           /\ ~Expired(The(Stored(k)), now))
             => Stored(k)' = Stored(k)]_vars

\* C37: a stock whose records cover every year of the window but the most
\* recent one, with standard audits and sound cash flows on all of them, is
\* not rejected for insufficient data when analyze_single_stock derives
\* required_years from the window
C37_MissingLatestTolerated ==
    (/\ fc.op = "done"
     /\ fc.start_year < fc.end_year
     /\ fc.covered = fc.start_year..(fc.end_year - 1)
     /\ \A i \in DOMAIN fc.metrics :
          fc.metrics[i].cashflow_positive /\ fc.metrics[i].cashflow_ge_profit
     /\ \A i \in DOMAIN fc.audit_records : fc.audit_records[i].is_standard)
        => The(fc.result).data_sufficiency_pass

\* C38: the debug and progress callbacks change no outcome: on the same stocks
\* and provider data, the run with callbacks gives every stock the outcome,
\* and the loop the passed list and the failed count, of the run without
C38_CallbacksChangeNothing ==
    tw.op = "loop" =>
        /\ \A e \in Stocks : tw.outcome[e].given = tw.outcome[e].plain
        /\ tw.given.passed_stocks = tw.plain.passed_stocks
        /\ tw.given.failed_count = tw.plain.failed_count

\* C39: when DataCache.set fails it returns False, its temporary file is not
\* there afterwards, and the entry stored before under the key is still there
\* with its value and its timestamp
C39_FailedSetKeepsEntry ==
    (sop.op = "set" /\ sop.raised = "" /\ sop.io # "ok") =>
        /\ ~sop.ret
        /\ tmp_path(cache_path_of(sop.key)) \notin DOMAIN disk
        /\ cache_path_of(sop.key) \in DOMAIN sop.before =>
              /\ cache_path_of(sop.key) \in DOMAIN disk
              /\ disk[cache_path_of(sop.key)] = sop.before[cache_path_of(sop.key)]

\* json.dump failed in a set on a key that held a readable entry
C39_Witness ==
    /\ sop.op = "set"
    /\ sop.raised = ""
    /\ sop.io = "dump"
    /\ ~sop.ret
    /\ cache_path_of(sop.key) \in DOMAIN sop.before
    /\ decode(sop.before[cache_path_of(sop.key)]) # None
    /\ The(decode(sop.before[cache_path_of(sop.key)])).timestamp < now

\* C40: in every state of the step-wise page processed = current_index =
\* passed + failed <= total (each step adds one to current_index, and at
\* total the run ends)
C40_StepCounters ==
    pg.op = "page" =>
        /\ pg.screening_progress.processed = pg.screening_progress.current_index
        /\ pg.screening_progress.current_index
              = pg.screening_progress.passed + pg.screening_progress.failed
        /\ pg.screening_progress.current_index <= pg.screening_progress.total

====
